---- MODULE Spec2Model ----
(***************************************************************************)
(* The SQL rendering core of Hadros: the QueryBuilder state machine of     *)
(* src/query.ts together with the escaping and formatting functions of     *)
(* src/utils.ts and SqlString that its handlers call.                      *)
(*                                                                         *)
(* Text.  A JavaScript string is modelled as a sequence of symbols.  A     *)
(* symbol is either one character that some operation inspects (a blank,   *)
(* a backtick, a dot, a quote, '?', ':', '*', ...) or a run of characters  *)
(* that no operation looks into (a word, a keyword, a number).  Str(t)     *)
(* flattens a text to the string it denotes; two texts denote the same     *)
(* JavaScript string iff their Str are equal.  The backtick, which a TLA+  *)
(* string cannot hold, is the symbol BQ, written ^.                        *)
(*                                                                         *)
(* Values.  A JavaScript value is a record [k, n, s, l]: its typeof-like   *)
(* kind k, its number n, its text s and its elements or key/value pairs l. *)
(***************************************************************************)
EXTENDS Integers, Sequences, FiniteSets, TLC

VARIABLES store, obj, last, left, args

vars == <<store, obj, last, left, args>>

----------------------------------------------------------------------------
(* Text primitives (String.prototype.trim, Array.prototype.join, ...)      *)

Ws == {" ", "\n", "\t", "\r"}

BQ == "^"

RECURSIVE Str(_)
Str(t) == IF t = <<>> THEN "" ELSE Head(t) \o Str(Tail(t))

RECURSIVE trimStart(_)
trimStart(t) == IF t # <<>> /\ Head(t) \in Ws THEN trimStart(Tail(t)) ELSE t

RECURSIVE trimEnd(_)
trimEnd(t) ==
  IF t # <<>> /\ t[Len(t)] \in Ws THEN trimEnd(SubSeq(t, 1, Len(t) - 1)) ELSE t

trim(t) == trimEnd(trimStart(t))

RECURSIVE Join(_, _)
Join(list, sep) ==
  IF list = <<>> THEN <<>>
  ELSE IF Len(list) = 1 THEN list[1]
  ELSE list[1] \o sep \o Join(Tail(list), sep)

RECURSIVE replaceAll(_, _, _)
replaceAll(t, c, r) ==
  IF t = <<>> THEN <<>>
  ELSE (IF Head(t) = c THEN r ELSE <<Head(t)>>) \o replaceAll(Tail(t), c, r)

RECURSIVE concatAll(_)
concatAll(lists) ==
  IF lists = <<>> THEN <<>> ELSE Head(lists) \o concatAll(Tail(lists))

SelectSeqNonEmpty(list) == SelectSeq(list, LAMBDA v : v # <<>>)

(* s.toLowerCase().indexOf(" as ") !== -1 *)
containsAs(t) ==
  \E i \in 1..(Len(t) - 2) :
    t[i] = " " /\ t[i + 1] \in {"as", "AS", "As", "aS"} /\ t[i + 2] = " "

----------------------------------------------------------------------------
(* JavaScript values                                                       *)

Val(k, n, s, l) == [k |-> k, n |-> n, s |-> s, l |-> l]

undefined == Val("undefined", 0, <<>>, <<>>)
null == Val("null", 0, <<>>, <<>>)
Num(n) == Val("number", n, <<>>, <<>>)
StrV(s) == Val("string", 0, s, <<>>)
Bool(b) == Val("boolean", IF b THEN 1 ELSE 0, <<>>, <<>>)
Arr(l) == Val("array", 0, <<>>, l)
Obj(l) == Val("object", 0, <<>>, l)

(* JavaScript truthiness, as used by assert(x) and if (x) *)
truthy(v) ==
  CASE v.k \in {"undefined", "null"} -> FALSE
    [] v.k = "number" -> v.n # 0
    [] v.k = "string" -> v.s # <<>>
    [] v.k = "boolean" -> v.n = 1
    [] OTHER -> TRUE

(* Object.keys(o) and o[key] of a mapping held as ordered key/value pairs *)
keysOf(o) == [i \in 1..Len(o.l) |-> o.l[i][1]]

hasKey(o, key) == \E i \in 1..Len(o.l) : o.l[i][1] = key

getKey(o, key) ==
  IF hasKey(o, key)
  THEN o.l[CHOOSE i \in 1..Len(o.l) : o.l[i][1] = key][2]
  ELSE undefined

deleteKey(o, key) == Obj(SelectSeq(o.l, LAMBDA p : p[1] # key))

----------------------------------------------------------------------------
(* Outcome of a call that may throw                                        *)

Ok(v) == [ok |-> TRUE, v |-> v, err |-> ""]
Err(msg) == [ok |-> FALSE, v |-> <<>>, err |-> msg]

(* const v = ...; F(v): the value is computed once and named *)
Let(v, F(_)) == F(v)

(* The statements F after a step r run only when r did not throw *)
Then(r, F(_)) == IF r.ok THEN F(r.v) ELSE r

RECURSIVE escapeId(_, _)
RECURSIVE escape(_, _)
RECURSIVE arrayToList(_, _, _)
RECURSIVE objectToValues(_, _)

----------------------------------------------------------------------------
(* SqlString (src/unnamed/part_002)                                        *)

(* String(val) *)
String(v) ==
  CASE v.k = "string" -> v.s
    [] v.k = "number" -> <<ToString(v.n)>>
    [] v.k = "boolean" -> IF v.n = 1 THEN <<"true">> ELSE <<"false">>
    [] v.k = "undefined" -> <<"undefined">>
    [] v.k = "null" -> <<"null">>
    [] OTHER -> <<"[object Object]">>

NUL == "<NUL>"
BS == "<BS>"
SUB == "<SUB>"

CHARS_ESCAPE_MAP(c) ==
  CASE c = NUL -> <<"\\", "0">>
    [] c = BS -> <<"\\", "b">>
    [] c = "\t" -> <<"\\", "t">>
    [] c = "\n" -> <<"\\", "n">>
    [] c = "\r" -> <<"\\", "r">>
    [] c = SUB -> <<"\\", "Z">>
    [] c = "\"" -> <<"\\", "\"">>
    [] c = "'" -> <<"\\", "'">>
    [] c = "\\" -> <<"\\", "\\">>
    [] OTHER -> <<c>>

RECURSIVE escapeChars(_)
escapeChars(t) ==
  IF t = <<>> THEN <<>> ELSE CHARS_ESCAPE_MAP(Head(t)) \o escapeChars(Tail(t))

escapeString(t) == <<"'">> \o escapeChars(t) \o <<"'">>

(* escapeId() that never splits a qualified name *)
escapeIdUnqualified(val, forbidQualified) ==
  IF val.k = "array"
  THEN Join([i \in 1..Len(val.l) |-> escapeId(val.l[i], forbidQualified)],
            <<",", " ">>)
  ELSE <<BQ>> \o replaceAll(String(val), BQ, <<BQ, BQ>>) \o <<BQ>>

escapeId(val, forbidQualified) ==
  IF val.k = "array"
  THEN Join([i \in 1..Len(val.l) |-> escapeId(val.l[i], forbidQualified)],
            <<",", " ">>)
  ELSE IF forbidQualified
  THEN <<BQ>> \o replaceAll(String(val), BQ, <<BQ, BQ>>) \o <<BQ>>
  ELSE <<BQ>>
       \o replaceAll(replaceAll(String(val), BQ, <<BQ, BQ>>),
                     ".", <<BQ, ".", BQ>>)
       \o <<BQ>>

(* A Date is the value of its day and its time of day: DateV(<<"2020-01-02",*)
(* "03:04:05.006">>).  dateToString(date, "local") in a process whose      *)
(* local time zone is UTC.                                                  *)
DateV(s) == Val("date", 0, s, <<>>)

dateToString(date) == escapeString(<<date.s[1], " ", date.s[2]>>)

(* Date.prototype.toJSON() *)
toJSON(date) == <<date.s[1], "T", date.s[2], "Z">>

escape(val, stringifyObjects) ==
  CASE val.k \in {"undefined", "null"} -> <<"NULL">>
    [] val.k = "boolean" -> IF val.n = 1 THEN <<"true">> ELSE <<"false">>
    [] val.k = "number" -> <<ToString(val.n)>>
    [] val.k = "date" -> dateToString(val)
    [] val.k = "array" -> arrayToList(val.l, 1, <<>>)
    [] val.k = "raw" -> val.s
    [] val.k \in {"object", "builder"} ->
         IF stringifyObjects THEN escapeString(<<"[object Object]">>)
         ELSE objectToValues(val, 1)
    [] OTHER -> escapeString(val.s)

(* arrayToList(array): the loop from element i on, sql being the text     *)
(* emitted so far.  A nested array is separated when sql.length !== 0,     *)
(* any other element when i !== 0.                                         *)
arrayToList(array, i, sql) ==
  IF i > Len(array) THEN sql
  ELSE arrayToList(array, i + 1,
         sql \o (IF array[i].k = "array"
                 THEN (IF sql = <<>> THEN <<>> ELSE <<",", " ">>)
                      \o <<"(">> \o arrayToList(array[i].l, 1, <<>>) \o <<")">>
                 ELSE (IF i = 1 THEN <<>> ELSE <<",", " ">>)
                      \o escape(array[i], TRUE)))

(* A builder instance has the single own key _data. *)
objectToValues(object, i) ==
  LET pairs == IF object.k = "builder"
               THEN <<<< <<"_data">>, Obj(<<>>) >>>>
               ELSE object.l
  IN  Join([j \in 1..Len(pairs) |->
              escapeId(StrV(pairs[j][1]), FALSE) \o <<" ", "=", " ">>
              \o escape(pairs[j][2], TRUE)],
           <<",", " ">>)

(* length of the run of '?' at the head of t *)
RECURSIVE runLen(_)
runLen(t) == IF t # <<>> /\ Head(t) = "?" THEN 1 + runLen(Tail(t)) ELSE 0

(* SqlString.format(sql, vals) with vals an array, from value j on *)
RECURSIVE SqlStringFormat(_, _, _)
SqlStringFormat(sql, values, j) ==
  IF sql = <<>> THEN <<>>
  ELSE IF j > Len(values) THEN sql
  ELSE IF Head(sql) # "?" THEN <<Head(sql)>> \o SqlStringFormat(Tail(sql), values, j)
  ELSE LET len == runLen(sql)
           rest == SubSeq(sql, len + 1, Len(sql))
       IN  IF len > 2 THEN SubSeq(sql, 1, len) \o SqlStringFormat(rest, values, j)
           ELSE (IF len = 2 THEN escapeId(values[j], FALSE)
                 ELSE escape(values[j], FALSE))
                \o SqlStringFormat(rest, values, j + 1)

----------------------------------------------------------------------------
(* src/expr.ts: Expression.build() on the buffer _data                     *)

(* build() without the assertion on the trimmed buffer *)
exprBuildAnyBuffer(data) ==
  LET str == trim(data)
      s1 == IF Len(str) >= 2 /\ str[1] = "AND" /\ str[2] = " "
            THEN SubSeq(str, 3, Len(str)) ELSE str
      s2 == IF Len(s1) >= 2 /\ s1[1] = "OR" /\ s1[2] = " "
            THEN SubSeq(s1, 3, Len(s1)) ELSE s1
  IN  Ok(<<"(">> \o s2 \o <<")">>)

exprBuild(data) ==
  LET str == trim(data)
      s1 == IF Len(str) >= 2 /\ str[1] = "AND" /\ str[2] = " "
            THEN SubSeq(str, 3, Len(str)) ELSE str
      s2 == IF Len(s1) >= 2 /\ s1[1] = "OR" /\ s1[2] = " "
            THEN SubSeq(s1, 3, Len(s1)) ELSE s1
  IN  IF str = <<>> THEN Err("Expression cannot be empty")
      ELSE Ok(<<"(">> \o s2 \o <<")">>)

(* v.build() of a builder passed as a value: an Expression carries its    *)
(* buffer in s; a QueryBuilder carries in s the text its build() returns,  *)
(* and n = 0 when its build() throws.                                      *)
buildValue(v) ==
  IF v.k = "expr" THEN exprBuild(v.s)
  ELSE IF v.n = 1 THEN Ok(v.s) ELSE Err("missing table name")

----
(* src/utils.ts                                                            *)

(* query && typeof query.build === "function": QueryBuilder and Expression *)
isQueryBuilder(v) == v.k \in {"builder", "expr"}

removeAt(list, i) == SubSeq(list, 1, i - 1) \o SubSeq(list, i + 1, Len(list))

(* The tpl.replace(/\?+/g, ...) pass of sqlFormat.  idx is the callback's  *)
(* index counted from 1 (0 before the first match).                        *)
RECURSIVE sqlFormatRaw(_, _, _)
sqlFormatRaw(t, values, idx) ==
  IF t = <<>> THEN [ok |-> TRUE, tpl |-> <<>>, values |-> values, err |-> ""]
  ELSE IF Head(t) # "?"
  THEN [sqlFormatRaw(Tail(t), values, idx) EXCEPT !.tpl = <<Head(t)>> \o @]
  ELSE Let(runLen(t), LAMBDA len :
       Let(idx + 1, LAMBDA i :
       Let(IF i <= Len(values) THEN values[i] ELSE undefined, LAMBDA v :
       Let(SubSeq(t, len + 1, Len(t)), LAMBDA rest :
         IF len # 3
         THEN [sqlFormatRaw(rest, values, i) EXCEPT !.tpl = SubSeq(t, 1, len) \o @]
         ELSE IF v.k = "string"
         THEN [sqlFormatRaw(rest, removeAt(values, i), idx) EXCEPT !.tpl = v.s \o @]
         ELSE IF isQueryBuilder(v)
         THEN Let(buildValue(v), LAMBDA b :
                IF ~b.ok
                THEN [ok |-> FALSE, tpl |-> <<>>, values |-> values, err |-> b.err]
                ELSE [sqlFormatRaw(rest, removeAt(values, i), idx)
                        EXCEPT !.tpl = <<"(">> \o b.v \o <<")">> \o @])
         ELSE [ok |-> FALSE, tpl |-> <<>>, values |-> values,
               err |-> "sqlFormat: value for ??? must be a string or QueryBuilder instance"]))))

sqlFormat(tpl, values) ==
  Let(sqlFormatRaw(tpl, values, 0), LAMBDA p :
    IF ~p.ok THEN Err(p.err) ELSE Ok(SqlStringFormat(p.tpl, p.values, 1)))

sqlEscape(value) == escape(value, FALSE)

sqlEscapeId(value) == escapeId(value, FALSE)

(* The characters that are symbols of their own; every other symbol is a   *)
(* run of [\w$] characters.                                                *)
Punct ==
  Ws \cup {BQ, ".", ",", "'", "\"", "\\", "?", ":", "*", "=", "(", ")", "<", ">",
           "+", "-", "/", NUL, BS, SUB}

isWord(c) == c \notin Punct

RECURSIVE colonRun(_)
colonRun(t) == IF t # <<>> /\ Head(t) = ":" THEN 1 + colonRun(Tail(t)) ELSE 0

Min(a, b) == IF a < b THEN a ELSE b

(* The callback of sqlFormatObject without the hasOwnProperty() test *)
placeholderAnyName(txt, m, name, values, disable) ==
  Let(IF hasKey(values, name) THEN getKey(values, name) ELSE undefined, LAMBDA val :
    IF disable THEN Ok(String(val))
    ELSE IF m = 2 THEN Ok(sqlEscapeId(val))
    ELSE IF m = 3
    THEN IF val.k = "string" THEN Ok(val.s)
         ELSE IF isQueryBuilder(val)
         THEN Then(buildValue(val), LAMBDA b : Ok(<<"(">> \o b \o <<")">>))
         ELSE Err("sqlFormatObject: value for ::: must be a string or QueryBuilder instance")
    ELSE Ok(sqlEscape(val)))

(* sql.replace(/:((:){0,2}[\w$]+)/g, ...) *)
(* The text that replaces the placeholder txt of the given name; m is the    *)
(* number of its colons                                                    *)
placeholder(txt, m, name, values, disable) ==
  IF ~hasKey(values, name) THEN Ok(txt)
  ELSE Let(getKey(values, name), LAMBDA val :
         IF disable THEN Ok(String(val))
         ELSE IF m = 2 THEN Ok(sqlEscapeId(val))
         ELSE IF m = 3
         THEN IF val.k = "string" THEN Ok(val.s)
              ELSE IF isQueryBuilder(val)
              THEN Then(buildValue(val), LAMBDA b : Ok(<<"(">> \o b \o <<")">>))
              ELSE Err("sqlFormatObject: value for ::: must be a string or QueryBuilder instance")
         ELSE Ok(sqlEscape(val)))

RECURSIVE sqlFormatObject(_, _, _)
sqlFormatObject(sql, values, disable) ==
  IF sql = <<>> THEN Ok(<<>>)
  ELSE IF Head(sql) # ":"
  THEN Then(sqlFormatObject(Tail(sql), values, disable),
            LAMBDA r : Ok(<<Head(sql)>> \o r))
  ELSE Let(colonRun(sql), LAMBDA k :
       Let(SubSeq(sql, k + 1, Len(sql)), LAMBDA after :
         IF after = <<>> \/ ~isWord(Head(after))
         THEN Then(sqlFormatObject(after, values, disable),
                   LAMBDA r : Ok(SubSeq(sql, 1, k) \o r))
         ELSE Let(Min(k, 3), LAMBDA m :
              Then(placeholder(SubSeq(sql, k - m + 1, k + 1), m, <<Head(after)>>,
                               values, disable),
                   LAMBDA sub :
              Then(sqlFormatObject(Tail(after), values, disable),
                   LAMBDA r : Ok(SubSeq(sql, 1, k - m) \o sub \o r))))))

findKeysForUndefinedValue(data) ==
  SelectSeq(keysOf(data), LAMBDA key : getKey(data, key).k = "undefined")

(* Object.keys(info) of any value *)
ObjectKeys(v) ==
  CASE v.k = "object" -> keysOf(v)
    [] v.k = "array" -> [i \in 1..Len(v.l) |-> <<ToString(i - 1)>>]
    [] v.k = "builder" -> << <<"_data">> >>
    [] v.k = "expr" -> << <<"_type">>, <<"_data">> >>
    [] v.k = "raw" -> << <<"toSqlString">> >>
    [] OTHER -> <<>>

(* info && typeof info === "object" *)
isObjectLike(v) == v.k \in {"object", "array", "builder", "expr", "raw", "date"}

(* One item of the .map() of sqlUpdateString *)
sqlUpdateItem(escapedName, info) ==
  IF isObjectLike(info) /\ Len(ObjectKeys(info)) = 1
  THEN Let(ObjectKeys(info)[1], LAMBDA op :
       Let(info.l[1][2], LAMBDA arg :
         CASE op = <<"$incr">> ->
                Ok(escapedName \o <<"=">> \o escapedName \o <<"+", "(">>
                   \o sqlEscape(arg) \o <<")">>)
           [] op = <<"$decr">> ->
                Ok(escapedName \o <<"=">> \o escapedName \o <<"-", "(">>
                   \o sqlEscape(arg) \o <<")">>)
           [] op = <<"$raw">> -> Ok(escapedName \o <<"=">> \o String(arg))
           [] OTHER -> Err("update type does not supported")))
  ELSE Ok(escapedName \o <<"=">> \o sqlEscape(info))

RECURSIVE sqlUpdateList(_, _)
sqlUpdateList(data, i) ==
  IF i > Len(data.l) THEN Ok(<<>>)
  ELSE Then(sqlUpdateItem(sqlEscapeId(StrV(data.l[i][1])), data.l[i][2]),
            LAMBDA one :
       Then(sqlUpdateList(data, i + 1), LAMBDA r : Ok(<<one>> \o r)))

sqlUpdateString(data) ==
  Then(sqlUpdateList(data, 1), LAMBDA r : Ok(Join(r, <<",", " ">>)))

(* The word symbols that begin with the character '$' *)
DollarWords ==
  {"$isNull", "$isNotNull", "$lt", "$lte", "$gt", "$gte", "$eq", "$ne", "$in",
   "$notIn", "$like", "$notLike", "$raw", "$incr", "$decr", "$bad"}

isPureConditionObject(info) ==
  /\ isObjectLike(info)
  /\ Len(ObjectKeys(info)) > 0
  /\ \A i \in 1..Len(ObjectKeys(info)) :
       ObjectKeys(info)[i] # <<>> /\ Head(ObjectKeys(info)[i]) \in DollarWords

(* "a, b, c": the escaped elements of an array operand of $in / $notIn *)
escapedList(l) == Join([i \in 1..Len(l) |-> sqlEscape(l[i])], <<",", " ">>)

(* The comparison cases without the escaping of the operand *)
conditionCmpUnescaped(escapedName, sym, arg) == Ok(escapedName \o sym \o String(arg))

(* The comparison cases of the switch (op) of sqlConditionStrings *)
conditionCmp(escapedName, sym, arg) == Ok(escapedName \o sym \o sqlEscape(arg))

(* The cases $in and $notIn without the guard for an empty array *)
conditionInAnyLength(escapedName, kw, guard, arg) ==
  IF isQueryBuilder(arg)
  THEN Then(buildValue(arg), LAMBDA b :
         Ok(escapedName \o <<" ">> \o kw \o <<" ", "(">> \o b \o <<")">>))
  ELSE IF arg.k = "array"
  THEN Ok(escapedName \o <<" ">> \o kw \o <<" ", "(">>
          \o escapedList(arg.l) \o <<")">>)
  ELSE Err("value for condition type $in / $notIn must be an array")

(* The cases $in and $notIn *)
conditionIn(escapedName, kw, guard, arg) ==
  IF isQueryBuilder(arg)
  THEN Then(buildValue(arg), LAMBDA b :
         Ok(escapedName \o <<" ">> \o kw \o <<" ", "(">> \o b \o <<")">>))
  ELSE IF arg.k = "array"
  THEN Let(escapedName \o <<" ">> \o kw \o <<" ", "(">>
           \o escapedList(arg.l) \o <<")">>,
           LAMBDA line :
             IF Len(arg.l) > 0 THEN Ok(line)
             ELSE Ok(<<guard, " ", "/", "*", " ", "empty", " ", "list", " ",
                       "warn", ":", " ">> \o line \o <<" ", "*", "/">>))
  ELSE Err("value for condition type $in / $notIn must be an array")

(* One case of the switch (op) of sqlConditionStrings *)
conditionOp(escapedName, op, arg) ==
  CASE op = <<"$isNull">> ->
         IF arg = Bool(TRUE) THEN Ok(escapedName \o <<" ", "IS", " ", "NULL">>)
         ELSE Err("value of $isNull property must be true")
    [] op = <<"$isNotNull">> ->
         IF arg = Bool(TRUE)
         THEN Ok(escapedName \o <<" ", "IS", " ", "NOT", " ", "NULL">>)
         ELSE Err("value of $isNotNull property must be true")
    [] op \in {<<"$lt">>, <<"$lte">>, <<"$gt">>, <<"$gte">>, <<"$eq">>, <<"$ne">>} ->
         conditionCmp(escapedName,
                      CASE op = <<"$lt">> -> <<"<">>
                        [] op = <<"$lte">> -> <<"<", "=">>
                        [] op = <<"$gt">> -> <<">">>
                        [] op = <<"$gte">> -> <<">", "=">>
                        [] op = <<"$eq">> -> <<"=">>
                        [] OTHER -> <<"<", ">">>,
                      arg)
    [] op = <<"$in">> -> conditionIn(escapedName, <<"IN">>, "0", arg)
    [] op = <<"$notIn">> -> conditionIn(escapedName, <<"NOT", " ", "IN">>, "1", arg)
    [] op \in {<<"$like">>, <<"$notLike">>} ->
         IF arg.k = "string"
         THEN Ok(escapedName
                 \o (IF op = <<"$like">> THEN <<" ", "LIKE", " ">>
                     ELSE <<" ", "NOT", " ", "LIKE", " ">>)
                 \o sqlEscape(arg))
         ELSE IF op = <<"$like">>
         THEN Err("value for condition type $like must be a string")
         ELSE Err("value for condition type $notLike must be a string")
    [] op = <<"$raw">> -> Ok(escapedName \o <<"=">> \o String(arg))
    [] OTHER -> Err("condition type does not supported")

(* Object.keys(info).forEach((op) => ...) from operator j on *)
RECURSIVE conditionOps(_, _, _)
conditionOps(escapedName, info, j) ==
  IF j > Len(info.l) THEN Ok(<<>>)
  ELSE Then(conditionOp(escapedName, info.l[j][1], info.l[j][2]), LAMBDA one :
       Then(conditionOps(escapedName, info, j + 1), LAMBDA r : Ok(<<one>> \o r)))

(* The strings of one field of the condition *)
conditionField(escapedName, info) ==
  IF isPureConditionObject(info) THEN conditionOps(escapedName, info, 1)
  ELSE Ok(<< escapedName \o <<"=">> \o sqlEscape(info) >>)

(* for (const name in condition) from field i on *)
RECURSIVE sqlConditionList(_, _)
sqlConditionList(condition, i) ==
  IF i > Len(condition.l) THEN Ok(<<>>)
  ELSE Then(conditionField(sqlEscapeId(StrV(condition.l[i][1])), condition.l[i][2]),
            LAMBDA one :
       Then(sqlConditionList(condition, i + 1), LAMBDA r : Ok(one \o r)))

sqlConditionStrings(condition) == sqlConditionList(condition, 1)

MaxUint64 == "18446744073709551615"

sqlLimitString(offset, limit) ==
  IF limit > 0
  THEN IF offset > 0
       THEN <<"LIMIT", " ", ToString(offset), ",", ToString(limit)>>
       ELSE <<"LIMIT", " ", ToString(limit)>>
  ELSE <<"LIMIT", " ", ToString(offset), ",", MaxUint64>>

joinMultiString(strs) ==
  Join(SelectSeqNonEmpty([i \in 1..Len(strs) |-> trim(strs[i])]), <<" ">>)

formatFields(table, fields) ==
  LET prefix == IF table # <<>> THEN table \o <<".">> ELSE <<>>
  IN  [i \in 1..Len(fields) |->
         LET n == fields[i]
         IN  IF n = <<"*">> THEN prefix \o <<"*">>
             ELSE IF containsAs(n) THEN n
             ELSE IF n # <<>> /\ Head(n) = BQ THEN prefix \o n
             ELSE prefix \o sqlEscapeId(StrV(n))]

----------------------------------------------------------------------------------------------------------------------------------------------------
(* src/query.ts: the state _data of a QueryBuilder and its handlers.  A    *)
(* handler takes the state d and yields R: the state it leaves behind,     *)
(* whether it returned (ok) or threw (err), and what it returned (out).    *)

NewData ==
  [tableName |-> undefined, tableNameEscaped |-> undefined,
   fields |-> <<>>, conditions |-> <<>>, type |-> "", update |-> <<>>,
   insert |-> <<>>, insertRows |-> 0, delete |-> <<>>, sql |-> <<>>,
   sqlTpl |-> <<>>, sqlValues |-> <<>>, orderFields |-> <<>>, orderBy |-> <<>>,
   groupBy |-> <<>>, offsetRows |-> 0, limitRows |-> 0, limit |-> <<>>,
   mapTableToAlias |-> <<>>, mapAliasToTable |-> <<>>,
   currentJoinTableName |-> <<>>, joinTables |-> <<>>]

Return(d) == [d |-> d, ok |-> TRUE, err |-> "", out |-> <<>>]
Throw(d, msg) == [d |-> d, ok |-> FALSE, err |-> msg, out |-> <<>>]

(* The statements F after a step r run on its value; a step that throws   *)
(* ends the call with the state d reached so far                          *)
OrThrow(d, r, F(_)) == IF r.ok THEN F(r.v) ELSE Throw(d, r.err)

ErrType == "cannot change query type after it was set"
ErrTable == "Cannot change table name after it's set"
ErrFields == "cannot change fields after it has been set"
ErrEmptyCondition == "condition cannot be empty"
ErrUndefinedKeys == "Found undefined value for condition keys "
ErrSetType == "query type must be UPDATE, please call .update() before"
ErrEmptyUpdate == "update data connot be empty"
ErrHaving == "please call groupBy() firstly"
ErrMissingTable == "missing table name"
ErrInvalidType == "invalid query type"
ErrAlias == "Alias name is already registered."

format(tpl, values) ==
  IF ~truthy(values) THEN Ok(tpl)
  ELSE IF ~isObjectLike(values)
  THEN Err("second parameter must be an array or object")
  ELSE IF values.k = "array" THEN sqlFormat(tpl, values.l)
  ELSE sqlFormatObject(tpl, values, FALSE)

(* values || [] *)
orEmpty(values) == IF truthy(values) THEN values ELSE Arr(<<>>)

table(d, name) ==
  IF truthy(d.tableName) THEN Throw(d, ErrTable)
  ELSE Return([d EXCEPT !.tableName = StrV(name),
                        !.tableNameEscaped = StrV(sqlEscapeId(StrV(name)))])

into(d, name) == table(d, name)

from(d, name) == table(d, name)

(* setTableAlias() without the assertion on the alias name *)
setTableAliasAnyName(d, tableName, aliasName) ==
  Return([d EXCEPT
    !.mapAliasToTable = (aliasName :> tableName) @@ @,
    !.mapTableToAlias = (String(tableName) :> aliasName) @@ @])

setTableAlias(d, tableName, aliasName) ==
  IF aliasName \in DOMAIN d.mapAliasToTable
  THEN Throw(d, ErrAlias)
  ELSE Return([d EXCEPT
         !.mapAliasToTable = (aliasName :> tableName) @@ @,
         !.mapTableToAlias = (String(tableName) :> aliasName) @@ @])

addJoinTable(d, tableName, type, fs) ==
  Return([d EXCEPT
    !.currentJoinTableName = tableName,
    !.joinTables = Append(@, [table |-> tableName, fields |-> fs, type |-> type,
                              on |-> <<>>, alias |-> <<>>])])

as(d, name) ==
  LET tableName == IF d.currentJoinTableName # <<>>
                   THEN StrV(d.currentJoinTableName) ELSE d.tableName
      r == setTableAlias(d, tableName, name)
  IN  IF ~r.ok THEN r
      ELSE IF Len(r.d.joinTables) > 0
      THEN Return([r.d EXCEPT !.joinTables[Len(r.d.joinTables)].alias = name])
      ELSE r

join(d, tableName, fs) == addJoinTable(d, tableName, "JOIN", fs)

leftJoin(d, tableName, fs) == addJoinTable(d, tableName, "LEFT JOIN", fs)

rightJoin(d, tableName, fs) == addJoinTable(d, tableName, "RIGHT JOIN", fs)

(* on() without the assertion on the ON clause of the last entry *)
onAnyEntry(d, condition, values) ==
  IF d.joinTables = <<>> THEN Throw(d, "Missing leftJoin() or rightJoin().")
  ELSE OrThrow(d, format(condition, values), LAMBDA f :
         Return([d EXCEPT !.joinTables[Len(d.joinTables)].on = f]))

on(d, condition, values) ==
  IF d.joinTables = <<>> THEN Throw(d, "Missing leftJoin() or rightJoin().")
  ELSE IF d.joinTables[Len(d.joinTables)].on # <<>>
  THEN Throw(d, "Join condition already registered.")
  ELSE OrThrow(d, format(condition, values), LAMBDA f :
         Return([d EXCEPT !.joinTables[Len(d.joinTables)].on = f]))

(* and() with a mapping in which $raw is a key like the others *)
andObjectRawAsField(d, hasRaw, condition) ==
  OrThrow(d,
          sqlConditionStrings(
            IF condition.k = "object" THEN condition
            ELSE Obj([i \in 1..Len(ObjectKeys(condition)) |->
                        <<ObjectKeys(condition)[i], condition.l[i]>>])),
          LAMBDA c : Return([d EXCEPT !.conditions = @ \o c]))

(* and() with a mapping: the $raw entry is pushed and removed, then the    *)
(* strings of the other entries are appended                               *)
andObject(d, hasRaw, condition) ==
  Let(IF hasRaw
      THEN [d EXCEPT !.conditions = Append(@, String(getKey(condition, <<"$raw">>)))]
      ELSE d,
      LAMBDA d1 :
  Let(IF hasRaw THEN deleteKey(condition, <<"$raw">>) ELSE condition, LAMBDA rest :
    OrThrow(d1,
            sqlConditionStrings(
              IF rest.k = "object" THEN rest
              ELSE Obj([i \in 1..Len(ObjectKeys(rest)) |->
                          <<ObjectKeys(rest)[i], rest.l[i]>>])),
            LAMBDA c : Return([d1 EXCEPT !.conditions = @ \o c]))))

(* Messages.undefinedValueConditionalKeys(keys): the keys are written with  *)
(* commas between them                                                     *)
undefinedValueConditionalKeys(keys) ==
  ErrUndefinedKeys \o Str(Join(keys, <<",">>)) \o "; it may cause unexpected errors"

(* and() without the assertion on the keys with an undefined value *)
andAnyKeys(d, condition, values) ==
  IF ~truthy(condition) THEN Throw(d, "Missing condition.")
  ELSE IF ~(condition.k = "string" \/ isObjectLike(condition))
  THEN Throw(d, "Condition must be a string or object.")
  ELSE IF condition.k = "string"
  THEN IF d.type # "SELECT" /\ trim(condition.s) = <<>>
       THEN Throw(d, ErrEmptyCondition)
       ELSE OrThrow(d, format(condition.s, orEmpty(values)), LAMBDA f :
              Return([d EXCEPT !.conditions = Append(@, f)]))
  ELSE IF condition.k = "expr"
  THEN OrThrow(d, exprBuild(condition.s), LAMBDA b :
         Return([d EXCEPT !.conditions = Append(@, b)]))
  ELSE IF d.type # "SELECT" /\ Len(ObjectKeys(condition)) = 0
  THEN Throw(d, ErrEmptyCondition)
  ELSE andObject(d, condition.k = "object" /\ hasKey(condition, <<"$raw">>),
                 condition)

and(d, condition, values) ==
  IF ~truthy(condition) THEN Throw(d, "Missing condition.")
  ELSE IF ~(condition.k = "string" \/ isObjectLike(condition))
  THEN Throw(d, "Condition must be a string or object.")
  ELSE IF condition.k = "string"
  THEN IF d.type # "SELECT" /\ trim(condition.s) = <<>>
       THEN Throw(d, ErrEmptyCondition)
       ELSE OrThrow(d, format(condition.s, orEmpty(values)), LAMBDA f :
              Return([d EXCEPT !.conditions = Append(@, f)]))
  ELSE IF condition.k = "expr"
  THEN OrThrow(d, exprBuild(condition.s), LAMBDA b :
         Return([d EXCEPT !.conditions = Append(@, b)]))
  ELSE IF findKeysForUndefinedValue(condition) # <<>>
  THEN Throw(d, undefinedValueConditionalKeys(findKeysForUndefinedValue(condition)))
  ELSE IF d.type # "SELECT" /\ Len(ObjectKeys(condition)) = 0
  THEN Throw(d, ErrEmptyCondition)
  ELSE andObject(d, condition.k = "object" /\ hasKey(condition, <<"$raw">>),
                 condition)

(* The mapping the caller passed to and(), as the call leaves it: the      *)
(* $raw entry is deleted once the assertions on the mapping have passed    *)
andArgument(d, condition) ==
  IF /\ truthy(condition)
     /\ condition.k = "object"
     /\ findKeysForUndefinedValue(condition) = <<>>
     /\ (d.type = "SELECT" \/ Len(ObjectKeys(condition)) > 0)
     /\ hasKey(condition, <<"$raw">>)
  THEN deleteKey(condition, <<"$raw">>)
  ELSE condition

where(d, condition, values) ==
  IF condition.k = "string" /\ truthy(values) THEN and(d, condition, values)
  ELSE and(d, condition, undefined)

(* fields() without the assertion on the field list *)
fieldsAnyList(d, fs) ==
  Return([d EXCEPT !.fields = @ \o formatFields(<<>>, fs)])

fields(d, fs) ==
  IF Len(d.fields) > 0 THEN Throw(d, ErrFields)
  ELSE Return([d EXCEPT !.fields = @ \o formatFields(<<>>, fs)])

(* select() without the assertion on the type *)
selectAnyType(d, fs) ==
  LET d1 == [d EXCEPT !.type = "SELECT"]
  IN  IF Len(fs) < 1 THEN Return(d1) ELSE fields(d1, fs)

select(d, fs) ==
  IF d.type # "" THEN Throw(d, ErrType)
  ELSE LET d1 == [d EXCEPT !.type = "SELECT"]
       IN  IF Len(fs) < 1 THEN Return(d1) ELSE fields(d1, fs)

selectDistinct(d, fs) ==
  IF d.type # "" THEN Throw(d, ErrType)
  ELSE LET d1 == [d EXCEPT !.type = "SELECT DISTINCT"]
       IN  IF ~(Len(fs) > 0) THEN Throw(d1, "distinct expected one or more fields")
           ELSE fields(d1, fs)

count(d, name, field) ==
  IF d.type # "" THEN Throw(d, ErrType)
  ELSE Return([d EXCEPT
         !.type = "SELECT",
         !.fields = Append(@, <<"COUNT", "(">> \o field \o <<")", " ", "AS", " ">>
                              \o sqlEscapeId(StrV(name)))])

(* set() once the type is asserted: the checks of the argument and the  *)
(* fragment pushed to data.update                                          *)
setFragment(d, upd, values) ==
  IF ~truthy(upd) THEN Throw(d, "missing update data")
  ELSE IF ~(upd.k = "string" \/ isObjectLike(upd))
  THEN Throw(d, "first parameter must be a string or array")
  ELSE IF upd.k = "string"
  THEN OrThrow(d, format(upd.s, orEmpty(values)), LAMBDA f :
         Return([d EXCEPT !.update = Append(@, f)]))
  ELSE OrThrow(d,
               sqlUpdateString(
                 IF upd.k = "object" THEN upd
                 ELSE Obj([i \in 1..Len(ObjectKeys(upd)) |->
                             <<ObjectKeys(upd)[i],
                               IF upd.k = "array" THEN upd.l[i] ELSE Obj(<<>>)>>])),
               LAMBDA u :
                 IF u # <<>> THEN Return([d EXCEPT !.update = Append(@, u)])
                 ELSE Return(d))

(* set() without the assertion on the type *)
setAnyType(d, upd, values) == setFragment(d, upd, values)

set(d, upd, values) ==
  IF ~(d.type = "UPDATE" \/ d.type = "INSERT_OR_UPDATE") THEN Throw(d, ErrSetType)
  ELSE setFragment(d, upd, values)

update(d, upd, values) ==
  IF d.type # "" THEN Throw(d, ErrType)
  ELSE LET d1 == [d EXCEPT !.type = "UPDATE", !.update = <<>>]
       IN  IF truthy(upd)
           THEN IF upd.k = "string" /\ truthy(values) THEN set(d1, upd, values)
                ELSE set(d1, upd, undefined)
           ELSE Return(d1)

(* The rows of insert(): every item must be an object holding every key   *)
(* of the first item; the tuple of a row is its escaped values in the      *)
(* first item's key order.                                                 *)
insertRowOk(item, originFields) ==
  /\ item.k = "object"
  /\ \A i \in 1..Len(originFields) : hasKey(item, originFields[i])

insertRow(item, originFields) ==
  <<"(">>
  \o Join([i \in 1..Len(originFields) |-> sqlEscape(getKey(item, originFields[i]))],
          <<",", " ">>)
  \o <<")">>

insert(d, data) ==
  IF d.type # "" THEN Throw(d, ErrType)
  ELSE LET d1 == [d EXCEPT !.type = "INSERT"]
           list == IF data.k = "array" THEN data.l ELSE <<data>>
           originFields == ObjectKeys(list[1])
           cols == [i \in 1..Len(originFields) |-> sqlEscapeId(StrV(originFields[i]))]
       IN  IF ~truthy(data) THEN Throw(d1, "missing data")
           ELSE IF ~isObjectLike(data) THEN Throw(d1, "data must be an object or array")
           ELSE IF data.k = "array" /\ Len(data.l) < 1
           THEN Throw(d1, "data array must have at least 1 item")
           ELSE IF \E i \in 1..Len(list) : ~insertRowOk(list[i], originFields)
           THEN Throw(d1, "every item of data array must be an object with every field")
           ELSE Return([d1 EXCEPT
                  !.insert = <<"(">> \o Join(cols, <<",", " ">>)
                             \o <<")", " ", "VALUES", " ">>
                             \o Join([i \in 1..Len(list) |->
                                        insertRow(list[i], originFields)],
                                     <<",", "\n">>),
                  !.insertRows = Len(list)])

delete(d) ==
  IF d.type # "" THEN Throw(d, ErrType)
  ELSE Return([d EXCEPT !.type = "DELETE"])

(* onDuplicateKeyUpdate() without the assertion on the row count *)
onDuplicateKeyUpdateAnyRows(d) ==
  IF d.type # "INSERT"
  THEN Throw(d, "onDuplicateKeyUpdate() must be called after insert()")
  ELSE Return([d EXCEPT !.type = "INSERT_OR_UPDATE"])

onDuplicateKeyUpdate(d) ==
  IF d.type # "INSERT"
  THEN Throw(d, "onDuplicateKeyUpdate() must be called after insert()")
  ELSE IF d.insertRows # 1
  THEN Throw(d, "onDuplicateKeyUpdate: wrong row count")
  ELSE Return([d EXCEPT !.type = "INSERT_OR_UPDATE"])

sql(d, tpl, values) ==
  IF d.type # "" THEN Throw(d, ErrType)
  ELSE Return([d EXCEPT
         !.type = "CUSTOM",
         !.sqlTpl = tpl,
         !.sqlValues = IF values.k = "array" THEN values.l ELSE <<>>])

(* t.replace(/'WORD'/gi, WORD) *)
RECURSIVE unquoteWord(_, _, _)
unquoteWord(t, spellings, word) ==
  IF t = <<>> THEN <<>>
  ELSE IF Len(t) >= 3 /\ t[1] = "'" /\ t[2] \in spellings /\ t[3] = "'"
  THEN <<word>> \o unquoteWord(SubSeq(t, 4, Len(t)), spellings, word)
  ELSE <<Head(t)>> \o unquoteWord(Tail(t), spellings, word)

orderBy(d, tpl, values) ==
  OrThrow(d, IF truthy(values) THEN format(tpl, values) ELSE Ok(tpl), LAMBDA f :
    Return([d EXCEPT
      !.orderFields = f,
      !.orderBy = unquoteWord(
                    unquoteWord(<<"ORDER", " ", "BY", " ">> \o f,
                                {"DESC", "desc", "Desc"}, "DESC"),
                    {"ASC", "asc", "Asc"}, "ASC")]))

groupBy(d, fs) ==
  IF ~(Len(fs) > 0) THEN Throw(d, "groupBy expected one or more fields")
  ELSE Return([d EXCEPT
         !.groupBy = <<"GROUP", " ", "BY", " ">>
                     \o Join(formatFields(<<>>, fs), <<",", " ">>)])

(* having() without the assertion on the GROUP BY text *)
havingAnyGroup(d, tpl, values) ==
  OrThrow(d, IF truthy(values) THEN format(tpl, values) ELSE Ok(tpl), LAMBDA f :
    Return([d EXCEPT !.groupBy = @ \o <<" ", "HAVING", " ">> \o f]))

having(d, tpl, values) ==
  IF ~(Len(d.groupBy) > 0) THEN Throw(d, ErrHaving)
  ELSE OrThrow(d, IF truthy(values) THEN format(tpl, values) ELSE Ok(tpl), LAMBDA f :
         Return([d EXCEPT !.groupBy = @ \o <<" ", "HAVING", " ">> \o f]))

offset(d, rows) ==
  IF ~(rows >= 0) THEN Throw(d, "rows must be >= 0")
  ELSE Return([d EXCEPT !.offsetRows = rows,
                        !.limit = sqlLimitString(rows, d.limitRows)])

skip(d, rows) == offset(d, rows)

limit(d, rows) ==
  IF ~(rows >= 0) THEN Throw(d, "rows must be >= 0")
  ELSE Return([d EXCEPT !.limitRows = rows,
                        !.limit = sqlLimitString(d.offsetRows, rows)])

(* options: a mapping of skip, offset, limit, orderBy, groupBy, fields;    *)
(* each key that is present is applied in this order, and a step that      *)
(* throws leaves the earlier steps applied.                                *)
optionStep(r, o, key, f(_, _)) ==
  IF r.ok /\ hasKey(o, <<key>>) /\ getKey(o, <<key>>).k # "undefined"
  THEN f(r.d, getKey(o, <<key>>)) ELSE r

options(d, o) ==
  IF ~truthy(o) THEN Throw(d, "options must be an Object")
  ELSE optionStep(
         optionStep(
           optionStep(
             optionStep(
               optionStep(
                 optionStep(Return(d), o, "skip", LAMBDA x, v : offset(x, v.n)),
                 o, "offset", LAMBDA x, v : offset(x, v.n)),
               o, "limit", LAMBDA x, v : limit(x, v.n)),
             o, "orderBy", LAMBDA x, v : orderBy(x, v.s, undefined)),
           o, "groupBy", LAMBDA x, v : groupBy(x, <<v.s>>)),
         o, "fields", LAMBDA x, v : fields(x, [i \in 1..Len(v.l) |-> v.l[i].s]))

(* data.mapTableToAlias[name], "" when there is none *)
aliasOf(d, name) ==
  IF name \in DOMAIN d.mapTableToAlias THEN d.mapTableToAlias[name] ELSE <<>>

(* One item of data.joinTables in build(): its clause and its fields *)
joinAlias(d, item) == IF item.alias # <<>> THEN item.alias ELSE aliasOf(d, item.table)

joinClause(d, item) ==
  Let(joinAlias(d, item), LAMBDA a :
    <<item.type, " ">> \o sqlEscapeId(StrV(item.table))
    \o (IF a # <<>> THEN <<" ", "AS", " ">> \o sqlEscapeId(StrV(a)) ELSE <<>>)
    \o (IF item.on # <<>> THEN <<" ", "ON", " ">> \o item.on ELSE <<>>))

(* The fields of a join entry under the name of its table, alias or not *)
joinFieldsByName(d, item) ==
  formatFields(sqlEscapeId(StrV(item.table)), item.fields)

joinFields(d, item) ==
  Let(joinAlias(d, item), LAMBDA a :
    formatFields(IF a # <<>> THEN sqlEscapeId(StrV(a))
                 ELSE sqlEscapeId(StrV(item.table)),
                 item.fields))

(* data.conditions = data.conditions.map((v) => v.trim()).filter((v) => v) *)
trimConditions(d) ==
  SelectSeqNonEmpty([i \in 1..Len(d.conditions) |-> trim(d.conditions[i])])

(* The WHERE clause with the conditions separated by commas *)
whereClauseComma(conditions) ==
  IF Len(conditions) > 0
  THEN <<"WHERE", " ">> \o Join(conditions, <<",", " ">>)
  ELSE <<>>

whereClause(conditions) ==
  IF Len(conditions) > 0
  THEN <<"WHERE", " ">> \o Join(conditions, <<" ", "AND", " ">>)
  ELSE <<>>

(* build() without the assertion on the table name *)
hasTableNameAlways(d) == TRUE

(* assert(currentTableName && currentTableEscapedName, ...) *)
hasTableName(d) == truthy(d.tableName) /\ truthy(d.tableNameEscaped)

Done(d, text) == [d |-> d, ok |-> TRUE, err |-> "", out |-> trim(text)]

(* The field list build() leaves in data.fields for a SELECT; a is the     *)
(* alias of the table, "" when it has none                                 *)
selectFields(d, a) ==
  Let((IF Len(d.joinTables) > 0
       THEN IF a # <<>>
            THEN formatFields(sqlEscapeId(StrV(a)), d.fields)
            ELSE formatFields(d.tableNameEscaped.s, d.fields)
       ELSE formatFields(<<>>, d.fields))
      \o concatAll([i \in 1..Len(d.joinTables) |-> joinFields(d, d.joinTables[i])]),
      LAMBDA joined : IF Len(joined) = 0 THEN << <<"*">> >> ELSE joined)

(* The list join of build(): the alias of the table, then the join clauses *)
joinList(d, a) ==
  (IF Len(d.joinTables) > 0 /\ a # <<>>
   THEN << <<"AS", " ">> \o sqlEscapeId(StrV(a)) >> ELSE <<>>)
  \o [i \in 1..Len(d.joinTables) |-> joinClause(d, d.joinTables[i])]

buildSelect(d) ==
  Let(aliasOf(d, d.tableName.s), LAMBDA a :
  Let(selectFields(d, a), LAMBDA fs :
    Done([d EXCEPT !.fields = fs],
         <<d.type, " ">> \o Join(fs, <<",", " ">>)
         \o <<" ", "FROM", " ">> \o d.tableNameEscaped.s \o <<" ">>
         \o joinMultiString(
              joinList(d, a)
              \o <<whereClause(d.conditions), d.groupBy, d.orderBy, d.limit>>))))

buildInsert(d) ==
  Done(d, <<"INSERT", " ", "INTO", " ">> \o d.tableNameEscaped.s \o <<" ">> \o d.insert)

(* The UPDATE branch of build() without the assertion on data.update *)
buildUpdateAnyList(d) ==
  Done(d, <<"UPDATE", " ">> \o d.tableNameEscaped.s \o <<" ", "SET", " ">>
          \o Join(d.update, <<",", " ">>) \o <<" ">>
          \o joinMultiString(<<whereClause(d.conditions), d.orderBy, d.limit>>))

buildUpdate(d) ==
  IF ~(Len(d.update) > 0) THEN Throw(d, ErrEmptyUpdate)
  ELSE Done(d, <<"UPDATE", " ">> \o d.tableNameEscaped.s \o <<" ", "SET", " ">>
               \o Join(d.update, <<",", " ">>) \o <<" ">>
               \o joinMultiString(<<whereClause(d.conditions), d.orderBy, d.limit>>))

buildInsertOrUpdate(d) ==
  IF ~(Len(d.update) > 0) THEN Throw(d, ErrEmptyUpdate)
  ELSE Done(d, <<"INSERT", " ", "INTO", " ">> \o d.tableNameEscaped.s \o <<" ">>
               \o d.insert
               \o <<" ", "ON", " ", "DUPLICATE", " ", "KEY", " ", "UPDATE", " ">>
               \o Join(d.update, <<",", " ">>))

buildDelete(d) ==
  Done(d, <<"DELETE", " ", "FROM", " ">> \o d.tableNameEscaped.s \o <<" ">>
          \o joinMultiString(<<whereClause(d.conditions), d.orderBy, d.limit>>))

(* The values build() gives to the placeholders of a CUSTOM template *)
customValues(d) ==
  Obj(<< << <<"$table">>, d.tableNameEscaped >>,
         << <<"$orderBy">>, StrV(d.orderBy) >>,
         << <<"$limit">>, StrV(d.limit) >>,
         << <<"$fields">>, StrV(Join(d.fields, <<",", " ">>)) >>,
         << <<"$skipRows">>, Num(d.offsetRows) >>,
         << <<"$offsetRows">>, Num(d.offsetRows) >>,
         << <<"$limitRows">>, Num(d.limitRows) >> >>)

buildCustom(d) ==
  OrThrow(d, sqlFormatObject(d.sqlTpl, customValues(d), TRUE), LAMBDA tpl :
  OrThrow(d, format(tpl, Arr(d.sqlValues)), LAMBDA f :
    Done([d EXCEPT !.sql = f], f)))

buildType(d) ==
  IF ~hasTableName(d) THEN Throw(d, ErrMissingTable)
  ELSE CASE d.type \in {"SELECT", "SELECT DISTINCT"} -> buildSelect(d)
         [] d.type = "INSERT" -> buildInsert(d)
         [] d.type = "UPDATE" -> buildUpdate(d)
         [] d.type = "INSERT_OR_UPDATE" -> buildInsertOrUpdate(d)
         [] d.type = "DELETE" -> buildDelete(d)
         [] d.type = "CUSTOM" -> buildCustom(d)
         [] OTHER -> Throw(d, ErrInvalidType)

build(d) == buildType([d EXCEPT !.conditions = trimConditions(d)])

(* JSON.parse(JSON.stringify(v)) of a value: undefined becomes null in an  *)
(* array and is dropped from an object; an object that is no plain object  *)
(* (a builder, a raw fragment) comes back as a plain object without its    *)
(* methods.                                                                *)
RECURSIVE jsonCopy(_)
jsonCopy(v) ==
  CASE v.k = "undefined" -> null
    [] v.k = "array" -> Arr([i \in 1..Len(v.l) |-> jsonCopy(v.l[i])])
    [] v.k = "object" ->
         LET kept == SelectSeq(v.l, LAMBDA p : p[2].k # "undefined")
         IN  Obj([i \in 1..Len(kept) |-> <<kept[i][1], jsonCopy(kept[i][2])>>])
    [] v.k = "builder" -> Obj(<< << <<"_data">>, Obj(<<>>) >> >>)
    [] v.k = "expr" ->
         Obj(<< << <<"_type">>, StrV(<<"condition">>) >>, << <<"_data">>, StrV(v.s) >> >>)
    [] v.k = "raw" -> Obj(<<>>)
    [] v.k = "date" -> StrV(toJSON(v))
    [] OTHER -> v

deepCopy(d) ==
  [d EXCEPT
     !.sqlValues = [i \in 1..Len(d.sqlValues) |-> jsonCopy(d.sqlValues[i])],
     !.mapAliasToTable =
        [a \in {x \in DOMAIN d.mapAliasToTable : d.mapAliasToTable[x].k # "undefined"}
           |-> d.mapAliasToTable[a]]]

(* clone() that returns the builder itself *)
cloneShared(st, this) == [store |-> st, ref |-> this]

(* const q = new QueryBuilder(); q._data = utils.deepCopy(this._data):    *)
(* st maps every _data object to its value, this is the object of the      *)
(* builder cloned; the clone refers to a new object holding the copy.      *)
clone(st, this) ==
  LET q == Cardinality(DOMAIN st) + 1
  IN  [store |-> (q :> deepCopy(st[this])) @@ st, ref |-> q]

----------------------------------------------------------------------------
(* The program: builders held by the caller.  store maps each QueryBuilder *)
(* object to its _data; obj maps the caller's variables b (created by new  *)
(* QueryBuilder()) and c (assigned by c = b.clone(), 0 before that) to     *)
(* their objects; last is the call made last and its outcome; left is the  *)
(* number of calls the caller still makes.                                 *)

(* Calls made when every operation is available *)
MaxCalls == 3

(* Calls made by a caller that writes one kind of query *)
MaxDepth == 5

Handles == {"b", "c"}

T(w) == <<w>>

Row(a) == Obj(<< <<T("a"), Num(a)>> >>)

TableNames == {<<>>, T("t")}
AliasNames == {T("A"), T("B")}
JoinTableNames == {T("t"), T("u")}
JoinFieldArgs == {<< T("z"), T("*") >>}
FieldArgs == {<<>>, << T("*"), T("a"), <<"n", " ", "as", " ", "m">> >>}
ConditionArgs ==
  {StrV(<<>>), StrV(<<" ">>), Obj(<<>>), Row(1),
   Obj(<< <<T("a"), Num(1)>>, <<T("b"), undefined>>, <<T("c"), undefined>> >>),
   Obj(<< <<T("b"), Num(2)>>, <<T("$raw"), StrV(T("r"))>> >>)}
OnArgs == {<<>>, <<"x", "=", "y">>}
UpdateArgs == {undefined, Obj(<<>>), Row(1)}
SetArgs == {Obj(<<>>), Obj(<< <<T("b"), Num(2)>> >>), StrV(<<"c", "=", "3">>)}
InsertArgs == {undefined, Row(1), Arr(<<Row(1), Row(2)>>)}
SqlArgs == {<<"SHOW", " ", ":", "$table">>}
OrderArgs == {<<"a", " ", "DESC">>}
GroupArgs == {<<>>, << T("g") >>}
HavingArgs == {<<"n", ">", "1">>}
RowCounts == {-1, 0, 2}
OptionsArgs ==
  {Obj(<< <<T("limit"), Num(1)>>, <<T("fields"), Arr(<<StrV(T("a"))>>)>> >>),
   Obj(<< <<T("groupBy"), StrV(T("g"))>> >>)}

cur(h) == store[obj[h]]

(* A call of a handler on the builder of h, with outcome r *)
Call(h, op, r) ==
  /\ left > 0
  /\ store' = [store EXCEPT ![obj[h]] = r.d]
  /\ last' = [h |-> h, op |-> op, ok |-> r.ok, err |-> r.err, out |-> r.out]
  /\ left' = left - 1
  /\ UNCHANGED <<obj, args>>

Start(n) ==
  /\ store = (1 :> NewData)
  /\ obj = [b |-> 1, c |-> 0]
  /\ last = [h |-> "b", op |-> "new", ok |-> TRUE, err |-> "", out |-> <<>>]
  /\ left = n
  /\ args = <<>>

Init == Start(MaxCalls)

Table(h) == \E name \in TableNames : obj[h] # 0 /\ Call(h, "table", table(cur(h), name))

From(h) == \E name \in TableNames : obj[h] # 0 /\ Call(h, "from", from(cur(h), name))

Into(h) == \E name \in TableNames : obj[h] # 0 /\ Call(h, "into", into(cur(h), name))

As(h) == \E name \in AliasNames : obj[h] # 0 /\ Call(h, "as", as(cur(h), name))

JoinCall(h) ==
  \E name \in JoinTableNames, fs \in JoinFieldArgs :
    obj[h] # 0 /\ Call(h, "join", join(cur(h), name, fs))

LeftJoin(h) ==
  \E name \in JoinTableNames, fs \in JoinFieldArgs :
    obj[h] # 0 /\ Call(h, "leftJoin", leftJoin(cur(h), name, fs))

RightJoin(h) ==
  \E name \in JoinTableNames, fs \in JoinFieldArgs :
    obj[h] # 0 /\ Call(h, "rightJoin", rightJoin(cur(h), name, fs))

On(h) == \E c \in OnArgs : obj[h] # 0 /\ Call(h, "on", on(cur(h), c, Arr(<<>>)))

Where(h) == \E c \in ConditionArgs : obj[h] # 0 /\ Call(h, "where", where(cur(h), c, undefined))

And(h) == \E c \in ConditionArgs : obj[h] # 0 /\ Call(h, "and", and(cur(h), c, undefined))

Select(h) == \E fs \in FieldArgs : obj[h] # 0 /\ Call(h, "select", select(cur(h), fs))

Fields(h) == \E fs \in FieldArgs : obj[h] # 0 /\ Call(h, "fields", fields(cur(h), fs))

SelectDistinct(h) ==
  \E fs \in FieldArgs : obj[h] # 0 /\ Call(h, "selectDistinct", selectDistinct(cur(h), fs))

Count(h) == obj[h] # 0 /\ Call(h, "count", count(cur(h), T("count"), T("*")))

Update(h) == \E u \in UpdateArgs : obj[h] # 0 /\ Call(h, "update", update(cur(h), u, undefined))

Set(h) == \E u \in SetArgs : obj[h] # 0 /\ Call(h, "set", set(cur(h), u, undefined))

Insert(h) == \E data \in InsertArgs : obj[h] # 0 /\ Call(h, "insert", insert(cur(h), data))

Delete(h) == obj[h] # 0 /\ Call(h, "delete", delete(cur(h)))

OnDuplicateKeyUpdate(h) ==
  obj[h] # 0 /\ Call(h, "onDuplicateKeyUpdate", onDuplicateKeyUpdate(cur(h)))

Sql(h) == \E tpl \in SqlArgs : obj[h] # 0 /\ Call(h, "sql", sql(cur(h), tpl, undefined))

OrderBy(h) == \E tpl \in OrderArgs : obj[h] # 0 /\ Call(h, "orderBy", orderBy(cur(h), tpl, undefined))

GroupBy(h) == \E fs \in GroupArgs : obj[h] # 0 /\ Call(h, "groupBy", groupBy(cur(h), fs))

Having(h) == \E tpl \in HavingArgs : obj[h] # 0 /\ Call(h, "having", having(cur(h), tpl, undefined))

Offset(h) == \E rows \in RowCounts : obj[h] # 0 /\ Call(h, "offset", offset(cur(h), rows))

Skip(h) == \E rows \in RowCounts : obj[h] # 0 /\ Call(h, "skip", skip(cur(h), rows))

Limit(h) == \E rows \in RowCounts : obj[h] # 0 /\ Call(h, "limit", limit(cur(h), rows))

Options(h) == \E o \in OptionsArgs : obj[h] # 0 /\ Call(h, "options", options(cur(h), o))

Build(h) == obj[h] # 0 /\ Call(h, "build", build(cur(h)))

(* c = b.clone(): c refers to the object clone() returns *)
Clone ==
  /\ left > 0
  /\ obj["c"] = 0
  /\ LET r == clone(store, obj["b"])
     IN  /\ store' = r.store
         /\ obj' = [obj EXCEPT !["c"] = r.ref]
  /\ last' = [h |-> "b", op |-> "clone", ok |-> TRUE, err |-> "", out |-> <<>>]
  /\ left' = left - 1
  /\ UNCHANGED args

Next ==
  \/ \E h \in Handles :
       \/ Table(h) \/ From(h) \/ Into(h) \/ As(h)
       \/ JoinCall(h) \/ LeftJoin(h) \/ RightJoin(h) \/ On(h)
       \/ Where(h) \/ And(h)
       \/ Select(h) \/ Fields(h) \/ SelectDistinct(h) \/ Count(h)
       \/ Update(h) \/ Set(h) \/ Insert(h) \/ Delete(h)
       \/ OnDuplicateKeyUpdate(h) \/ Sql(h)
       \/ OrderBy(h) \/ GroupBy(h) \/ Having(h)
       \/ Offset(h) \/ Skip(h) \/ Limit(h) \/ Options(h)
       \/ Build(h)
  \/ Clone

Spec == Init /\ [][Next]_vars

(* A caller that writes UPDATE and INSERT queries on one builder *)
InitUpdate == Start(MaxDepth)

NextUpdate ==
  \/ Table("b") \/ Update("b") \/ Insert("b") \/ OnDuplicateKeyUpdate("b")
  \/ Set("b") \/ Where("b") \/ Build("b")

SpecUpdate == InitUpdate /\ [][NextUpdate]_vars

(* A caller that writes grouped SELECT queries on one builder *)
InitSelect == Start(MaxDepth)

NextSelect ==
  \/ From("b") \/ Select("b") \/ Count("b") \/ GroupBy("b") \/ Having("b")
  \/ Options("b") \/ Where("b") \/ Build("b")

SpecSelect == InitSelect /\ [][NextSelect]_vars

(* A caller that writes SELECT queries over joined tables on one builder *)
InitJoin == Start(MaxDepth)

NextJoin ==
  \/ From("b") \/ As("b") \/ JoinCall("b") \/ On("b") \/ Select("b") \/ Build("b")

SpecJoin == InitJoin /\ [][NextJoin]_vars

(* A caller that writes conditions of SELECT and DELETE queries on one     *)
(* builder                                                                 *)
InitWhere == Start(MaxDepth)

NextWhere ==
  \/ From("b") \/ Select("b") \/ Delete("b") \/ Where("b") \/ And("b") \/ Build("b")

SpecWhere == InitWhere /\ [][NextWhere]_vars

(* A caller that writes INSERT queries of one or more rows on one builder *)
Row2(a, b) == Obj(<< <<T("a"), Num(a)>>, <<T("b"), Num(b)>> >>)

RowBA(b, a) == Obj(<< <<T("b"), Num(b)>>, <<T("a"), Num(a)>> >>)

RowListArgs ==
  {Row(1), Arr(<<>>), Arr(<<Row(1), Row(2)>>), Arr(<<Row(1), Num(2)>>),
   Arr(<<Row2(1, 2), RowBA(3, 4)>>), Arr(<<Row(1), Row2(2, 3)>>),
   Arr(<<Row2(1, 2), Row(3)>>), Arr(<<Row2(1, 2), Row2(3, 4), Row2(5, 6)>>)}

InsertRows(h) ==
  \E data \in RowListArgs : obj[h] # 0 /\ Call(h, "insert", insert(cur(h), data))

InitInsert == Start(MaxDepth)

NextInsert ==
  \/ Into("b") \/ InsertRows("b") \/ OnDuplicateKeyUpdate("b") \/ Set("b") \/ Build("b")

SpecInsert == InitInsert /\ [][NextInsert]_vars

(* A caller that writes custom statements with values on one builder *)
CustomTemplates ==
  {<<"SELECT", " ", ":", "$fields", " ", "FROM", " ", ":", "$table", " ",
     "WHERE", " ", "a", "=", "?", " ", ":", "$orderBy", " ", ":", "$limit">>,
   <<"SELECT", " ", "?", "?", " ", "FROM", " ", ":", "$table", " ",
     "WHERE", " ", "a", ">", ":", "v", " ", "LIMIT", " ",
     ":", "$skipRows", ",", ":", "$limitRows", ",", ":", "$offsetRows">>}

CustomValues ==
  {undefined, Arr(<<>>), Arr(<<StrV(T("x"))>>), Arr(<<Num(1), Num(2)>>),
   Obj(<< <<T("v"), Num(18)>> >>)}

SqlValues(h) ==
  \E tpl \in CustomTemplates, values \in CustomValues :
    obj[h] # 0 /\ Call(h, "sql", sql(cur(h), tpl, values))

InitCustom == Start(MaxDepth)

NextCustom ==
  \/ Table("b") \/ SqlValues("b") \/ Fields("b") \/ OrderBy("b") \/ Limit("b")
  \/ Offset("b") \/ Build("b")

SpecCustom == InitCustom /\ [][NextCustom]_vars

----------------------------------------------------------------------------
(* src/expr.ts: the Expression state machine.  An Expression is the record *)
(* of its fields _type and _data.                                          *)

NewExpression == [type |-> "", data |-> <<>>]

(* Expression.format(tpl, values) *)
exprFormat(tpl, values) ==
  IF ~truthy(values) THEN Ok(tpl)
  ELSE IF ~isObjectLike(values)
  THEN Err("The second parameter must be an array or object")
  ELSE IF values.k = "array" THEN sqlFormat(tpl, values.l)
  ELSE sqlFormatObject(tpl, values, FALSE)

(* `${array}`: the elements joined by a comma *)
arrayToString(list) == Join(list, <<",">>)

combineCondition(e, connector, condition, values) ==
  IF ~(e.type = "" \/ e.type = "condition")
  THEN Throw(e, "Cannot change expression type")
  ELSE IF ~truthy(condition) THEN Throw(e, "Missing condition")
  ELSE IF ~(condition.k = "string" \/ isObjectLike(condition))
  THEN Throw(e, "Condition must be a string or object")
  ELSE IF condition.k = "string"
  THEN OrThrow(e, exprFormat(condition.s, orEmpty(values)), LAMBDA f :
         Return([e EXCEPT !.data = @ \o <<" ", connector, " ">> \o f,
                          !.type = "condition"]))
  ELSE IF findKeysForUndefinedValue(condition) # <<>>
  THEN Throw(e, undefinedValueConditionalKeys(findKeysForUndefinedValue(condition)))
  ELSE OrThrow(e, sqlConditionStrings(condition), LAMBDA list :
         Return([e EXCEPT !.data = @ \o <<" ", connector, " ">> \o arrayToString(list),
                          !.type = "condition"]))

exprAnd(e, condition, values) == combineCondition(e, "AND", condition, values)

exprOr(e, condition, values) == combineCondition(e, "OR", condition, values)

(* Expression.build() *)
expressionBuild(e) ==
  IF exprBuild(e.data).ok
  THEN [d |-> e, ok |-> TRUE, err |-> "", out |-> exprBuild(e.data).v]
  ELSE Throw(e, exprBuild(e.data).err)

(* A caller that combines conditions on one Expression.  args is the list  *)
(* of the and() / or() calls that returned: connector, condition, values.  *)
ExprArgs ==
  {<<StrV(<<>>), undefined>>,
   <<StrV(<<"a", "=", "?">>), Arr(<<Num(1)>>)>>,
   <<StrV(<<"OR", " ", "b">>), undefined>>,
   <<StrV(<<"c", " ">>), Obj(<<>>)>>,
   <<StrV(<<"?", "?", "?">>), Arr(<<Num(1)>>)>>,
   <<Num(5), undefined>>,
   <<Obj(<<>>), undefined>>,
   <<Row(1), undefined>>,
   <<Row2(1, 2), undefined>>,
   <<Obj(<< <<T("a"), Obj(<< <<T("$gt"), Num(1)>>, <<T("$lt"), Num(5)>> >>)>> >>),
     undefined>>,
   <<Obj(<< <<T("a"), undefined>> >>), undefined>>}

ExprCall(h, op, connector, a, r) ==
  /\ left > 0
  /\ store' = [store EXCEPT ![obj[h]] = r.d]
  /\ last' = [h |-> h, op |-> op, ok |-> r.ok, err |-> r.err, out |-> r.out]
  /\ left' = left - 1
  /\ args' = IF r.ok /\ op # "build" THEN Append(args, <<connector, a[1], a[2]>>)
             ELSE args
  /\ UNCHANGED obj

ExprAnd(h) ==
  \E a \in ExprArgs :
    obj[h] # 0 /\ ExprCall(h, "and", "AND", a, exprAnd(cur(h), a[1], a[2]))

ExprOr(h) ==
  \E a \in ExprArgs :
    obj[h] # 0 /\ ExprCall(h, "or", "OR", a, exprOr(cur(h), a[1], a[2]))

ExprBuild(h) ==
  obj[h] # 0 /\ ExprCall(h, "build", "", <<>>, expressionBuild(cur(h)))

InitExpr ==
  /\ store = (1 :> NewExpression)
  /\ obj = [b |-> 1, c |-> 0]
  /\ last = [h |-> "b", op |-> "new", ok |-> TRUE, err |-> "", out |-> <<>>]
  /\ left = MaxCalls
  /\ args = <<>>

NextExpr == ExprAnd("b") \/ ExprOr("b") \/ ExprBuild("b")

SpecExpr == InitExpr /\ [][NextExpr]_vars

----------------------------------------------------------------------------
(* Callers of the formatting functions of src/utils.ts.  args holds the    *)
(* arguments of the call; a template is given by its pieces, each either a *)
(* text without placeholder (k = 0) or a placeholder: k marks ('?' or ':') *)
(* and, for sqlFormatObject, the name t.                                   *)

Lit(t) == [k |-> 0, t |-> t]

Mark(k) == [k |-> k, t |-> <<>>]

Named(k, name) == [k |-> k, t |-> <<name>>]

(* The text of a template of sqlFormat *)
RECURSIVE Tpl(_)
Tpl(pieces) ==
  IF pieces = <<>> THEN <<>>
  ELSE (IF Head(pieces).k = 0 THEN Head(pieces).t
        ELSE [i \in 1..Head(pieces).k |-> "?"])
       \o Tpl(Tail(pieces))

(* The text of a template of sqlFormatObject *)
RECURSIVE NamedTpl(_)
NamedTpl(pieces) ==
  IF pieces = <<>> THEN <<>>
  ELSE (IF Head(pieces).k = 0 THEN Head(pieces).t
        ELSE [i \in 1..Head(pieces).k |-> ":"] \o Head(pieces).t)
       \o NamedTpl(Tail(pieces))

Builder(text) == Val("builder", 1, text, <<>>)

FormatTemplates ==
  {<<Lit(<<"a", "=">>), Mark(1), Lit(<<" ", "AND", " ">>), Mark(2), Lit(<<"=">>),
     Mark(1), Lit(<<" ", "AND", " ">>), Mark(3), Lit(<<" ", "AND", " ", "d", "=">>),
     Mark(1)>>,
   <<Mark(3), Lit(<<" ", "AND", " ", "b", "=">>), Mark(1)>>,
   <<Lit(<<"x", "=">>), Mark(1), Lit(<<" ", "OR", " ">>), Mark(3)>>,
   <<Mark(2), Lit(<<" ", "IN", " ">>), Mark(3), Lit(<<" ", "OR", " ">>), Mark(2),
     Lit(<<"<">>), Mark(1)>>,
   <<Mark(4), Lit(<<" ">>), Mark(3), Lit(<<" ">>), Mark(1)>>}

FormatValues ==
  {<<>>,
   <<Num(1)>>,
   <<StrV(T("y"))>>,
   <<Num(123), StrV(T("b")), Num(456), StrV(T("yyy")), Num(789)>>,
   <<StrV(<<"a", "=", "?">>), Num(1), StrV(<<"it", "'", "s">>)>>,
   <<Builder(<<"SELECT", " ", "?">>), Num(2)>>,
   <<StrV(<<"t", ".", "c">>), Builder(T("xxx")), StrV(T("e")), Num(7), Num(8)>>,
   <<Num(1), Num(2), Num(3), Num(4)>>,
   <<StrV(T("c")), Val("builder", 0, <<>>, <<>>), Num(3)>>}

NamedTemplates ==
  {<<Lit(<<"a", "=">>), Named(1, "v"), Lit(<<" ", "AND", " ">>), Named(2, "f"),
     Lit(<<"=">>), Named(1, "w"), Lit(<<" ", "AND", " ">>), Named(3, "r")>>,
   <<Named(3, "v"), Lit(<<" ">>), Named(1, "q")>>,
   <<Lit(<<"SELECT", " ">>), Named(2, "r"), Lit(<<" ", "FROM", " ">>), Named(3, "q"),
     Lit(<<" ", "WHERE", " ", "x", "=">>), Named(1, "f")>>,
   <<Named(1, "nokey"), Lit(<<",">>), Named(2, "nokey"), Lit(<<",">>),
     Named(3, "nokey"), Lit(<<" ">>), Named(1, "r")>>}

NamedValues ==
  {Obj(<<>>),
   Obj(<< <<T("v"), Num(1)>>, <<T("f"), StrV(<<"t", ".", "c">>)>>,
          <<T("w"), StrV(<<"it", "'", "s">>)>>, <<T("r"), StrV(<<"x", ">", "1">>)>> >>),
   Obj(<< <<T("v"), StrV(<<":", "r">>)>>, <<T("q"), Builder(T("xxx"))>>,
          <<T("r"), StrV(T("c"))>>, <<T("f"), null>> >>),
   Obj(<< <<T("r"), Num(5)>>, <<T("q"), Val("builder", 0, <<>>, <<>>)>>,
          <<T("f"), undefined>> >>)}

FormatCalls ==
  [f : {"sqlFormat"}, pieces : FormatTemplates, values : FormatValues,
   disable : {FALSE}]
  \cup [f : {"sqlFormatObject"}, pieces : NamedTemplates, values : NamedValues,
        disable : BOOLEAN]

(* A call of a function of utils.ts with the arguments args and outcome r *)
Apply(op, r) ==
  /\ left > 0
  /\ last' = [h |-> "b", op |-> op, ok |-> r.ok, err |-> r.err, out |-> r.v]
  /\ left' = left - 1
  /\ UNCHANGED <<store, obj, args>>

Caller(calls) ==
  /\ store = <<>>
  /\ obj = [b |-> 0, c |-> 0]
  /\ last = [h |-> "b", op |-> "new", ok |-> TRUE, err |-> "", out |-> <<>>]
  /\ left = MaxCalls
  /\ args \in calls

SqlFormat ==
  args.f = "sqlFormat" /\ Apply("sqlFormat", sqlFormat(Tpl(args.pieces), args.values))

SqlFormatObject ==
  args.f = "sqlFormatObject"
  /\ Apply("sqlFormatObject",
           sqlFormatObject(NamedTpl(args.pieces), args.values, args.disable))

InitFormat == Caller(FormatCalls)

NextFormat == SqlFormat \/ SqlFormatObject

SpecFormat == InitFormat /\ [][NextFormat]_vars

(* Callers of sqlConditionStrings and sqlUpdateString: args holds the      *)
(* function and the mapping it is called with.                             *)
Field(name, value) == <<T(name), value>>

Op(name, value) == Obj(<< <<T(name), value>> >>)

Op2(n1, v1, n2, v2) == Obj(<< <<T(n1), v1>>, <<T(n2), v2>> >>)

ConditionMaps ==
  {Obj(<<>>),
   Obj(<<Field("a", Num(1)), Field("b", StrV(<<"it", "'", "s">>))>>),
   Obj(<<Field("a", Op2("$eq", Num(1), "$ne", StrV(T("x")))),
         Field("b", Op2("$lt", Num(3), "$lte", Num(4)))>>),
   Obj(<<Field("a", Op2("$gt", Num(1), "$gte", StrV(T("x")))), Field("b", null)>>),
   Obj(<<Field("a", Op("$like", StrV(<<"%", "x">>))),
         Field("b", Op("$notLike", StrV(T("y"))))>>),
   Obj(<<Field("a", Op("$like", Num(1)))>>),
   Obj(<<Field("a", Num(1)), Field("b", Op("$notLike", null))>>),
   Obj(<<Field("a", Op("$isNull", Bool(TRUE))),
         Field("b", Op("$isNotNull", Bool(TRUE)))>>),
   Obj(<<Field("a", Op("$isNull", Bool(FALSE)))>>),
   Obj(<<Field("a", Op("$isNotNull", Num(1)))>>),
   Obj(<<Field("a", Op("$raw", StrV(<<"b", "+", "1">>)))>>),
   Obj(<<Field("a", Op("$bad", Num(1)))>>),
   Obj(<<Field("a", Op2("$eq", Num(1), "$bad", Num(2)))>>),
   Obj(<<Field("a", Op2("$lt", Num(1), "x", Num(2)))>>),
   Obj(<<Field("a", Op("$in", Arr(<<Num(1), StrV(T("x"))>>))),
         Field("b", Op("$notIn", Arr(<<Num(2), Num(3)>>)))>>),
   Obj(<<Field("a", Op("$in", Arr(<<>>)))>>),
   Obj(<<Field("a", Num(1)), Field("b", Op("$notIn", Arr(<<>>)))>>),
   Obj(<<Field("a", Op("$in", Builder(<<"SELECT", " ", "1">>))),
         Field("b", Op("$notIn", Builder(<<"SELECT", " ", "2">>)))>>),
   Obj(<<Field("a", Op("$in", Num(5)))>>),
   Obj(<<Field("a", Op("$notIn", StrV(T("x"))))>>),
   Obj(<<Field("a", Op("$in", Obj(<<>>)))>>),
   Obj(<<Field("a", Op2("$gt", Num(0), "$in", Arr(<<Num(1)>>)))>>)}

UpdateMaps ==
  {Obj(<<>>),
   Obj(<<Field("a", Num(1)), Field("b", StrV(<<"it", "'", "s">>))>>),
   Obj(<<Field("a", Op("$incr", Num(1)))>>),
   Obj(<<Field("a", Op("$decr", Num(2))), Field("b", null)>>),
   Obj(<<Field("a", Op("$raw", StrV(<<"b", "+", "1">>)))>>),
   Obj(<<Field("a", Op("$bad", Num(1)))>>),
   Obj(<<Field("a", Op2("$incr", Num(1), "$decr", Num(2)))>>),
   Obj(<<Field("a", Op2("x", Num(1), "y", Num(2)))>>),
   Obj(<<Field("a", Op("x", Num(1)))>>),
   Obj(<<Field("a", Arr(<<Num(1), Num(2)>>))>>),
   Obj(<<Field("a", Arr(<<Num(1)>>))>>),
   Obj(<<Field("a", Num(1)), Field("b", Op("$eq", Num(1)))>>)}

ConditionCalls ==
  [f : {"sqlConditionStrings"}, data : ConditionMaps]
  \cup [f : {"sqlUpdateString"}, data : UpdateMaps]

SqlConditionStrings ==
  args.f = "sqlConditionStrings"
  /\ Apply("sqlConditionStrings", sqlConditionStrings(args.data))

SqlUpdateString ==
  args.f = "sqlUpdateString" /\ Apply("sqlUpdateString", sqlUpdateString(args.data))

InitCondition == Caller(ConditionCalls)

NextCondition == SqlConditionStrings \/ SqlUpdateString

SpecCondition == InitCondition /\ [][NextCondition]_vars

(* Callers of SqlString.escapeId and SqlString.escape: args holds the      *)
(* function, the value and the flag it is called with.                     *)
Raw(text) == Val("raw", 0, text, <<>>)

IdValues ==
  {StrV(T("id")), StrV(<<"i", BQ, "d">>), StrV(<<"id1", ".", "id2">>),
   StrV(<<"id", BQ, "1", ".", "i", BQ, "d2">>), StrV(<<".", "a">>),
   StrV(<<"a", ".", ".", "b">>), StrV(<<BQ>>), StrV(<<>>), Num(42), Obj(<<>>),
   Arr(<<>>), Arr(<<StrV(T("a")), StrV(T("b")), StrV(<<"t", ".", "c">>)>>),
   Arr(<<StrV(T("a")), Arr(<<StrV(<<"b", BQ>>), Arr(<<StrV(<<"t", ".", "c">>)>>)>>)>>),
   Arr(<<StrV(T("a")), Arr(<<>>), StrV(T("b"))>>)}

EscapeValues ==
  {undefined, null, Bool(TRUE), Bool(FALSE), Num(0), Num(42), Num(-7),
   Raw(<<"NOW", "(", ")">>), Raw(<<"it", "'", "s">>),
   StrV(<<>>), StrV(T("Super")), StrV(<<"Sup", "'", "er">>), StrV(<<"Sup", "\"", "er">>),
   StrV(<<"Sup", "\\", "er">>), StrV(<<"Sup", NUL, "er">>), StrV(<<"Sup", BS, "er">>),
   StrV(<<"Sup", "\t", "er">>), StrV(<<"Sup", "\n", "er">>), StrV(<<"Sup", "\r", "er">>),
   StrV(<<"Sup", SUB, "er">>), StrV(<<"\\", "'", " ", "OR", " ", "1", "=", "1", "\\">>),
   StrV(<<"'", "'", "\"", "\\", "\\", "n">>),
   Arr(<<>>), Arr(<<Num(1), StrV(<<"a", "'">>), null>>),
   Arr(<<Arr(<<Num(1), Num(2)>>), Arr(<<StrV(T("a")), Bool(TRUE)>>)>>),
   Arr(<<Num(1), Arr(<<Num(2), Arr(<<Num(3)>>)>>), Raw(T("x"))>>),
   Arr(<<Arr(<<>>), Num(1)>>),
   Arr(<<Raw(<<>>), Arr(<<Num(1), Num(2)>>)>>),
   Arr(<<Raw(<<>>), Num(1), Raw(<<>>)>>)}

EscapeCalls ==
  [f : {"escapeId"}, val : IdValues, flag : BOOLEAN]
  \cup [f : {"escape"}, val : EscapeValues, flag : {FALSE}]

EscapeId ==
  args.f = "escapeId" /\ Apply("escapeId", Ok(escapeId(args.val, args.flag)))

Escape == args.f = "escape" /\ Apply("escape", Ok(escape(args.val, args.flag)))

InitEscape == Caller(EscapeCalls)

NextEscape == EscapeId \/ Escape

SpecEscape == InitEscape /\ [][NextEscape]_vars

(* A caller that stores a statement with positional values on a builder,   *)
(* clones the builder and builds the two                                   *)
StoredTemplates ==
  {<<"SELECT", " ", "*", " ", "FROM", " ", ":", "$table", " ",
     "WHERE", " ", "a", "=", "?">>,
   <<"SELECT", " ", "*", " ", "FROM", " ", ":", "$table", " ",
     "WHERE", " ", "a", " ", "IN", " ", "?", "?", "?">>}

StoredValues ==
  {Arr(<<Num(1)>>), Arr(<<StrV(T("x"))>>), Arr(<<undefined>>),
   Arr(<<DateV(<<"2020-01-02", "03:04:05.006">>)>>),
   Arr(<<Builder(<<"SELECT", " ", "1">>)>>)}

SqlStored(h) ==
  \E tpl \in StoredTemplates, values \in StoredValues :
    obj[h] # 0 /\ Call(h, "sql", sql(cur(h), tpl, values))

InitClone == Start(MaxDepth)

NextClone ==
  \/ Table("b") \/ SqlStored("b") \/ Limit("b") \/ Clone \/ Build("b") \/ Build("c")

SpecClone == InitClone /\ [][NextClone]_vars

(* A caller that keeps one condition mapping, args, and passes it to the   *)
(* where() calls it makes on one builder                                   *)
HeldMaps ==
  {Obj(<<>>), Row(1),
   Obj(<< <<T("$raw"), StrV(T("r"))>> >>),
   Obj(<< <<T("b"), Num(2)>>, <<T("$raw"), StrV(T("r"))>> >>),
   Obj(<< <<T("$raw"), StrV(T("r"))>>, <<T("c"), undefined>> >>),
   Obj(<< <<T("$raw"), StrV(T("r"))>>,
          Field("a", Op2("$eq", Num(1), "$bad", Num(2))) >>)}

WhereHeld(h) ==
  /\ obj[h] # 0
  /\ left > 0
  /\ LET r == where(cur(h), args, undefined)
     IN  /\ store' = [store EXCEPT ![obj[h]] = r.d]
         /\ last' = [h |-> h, op |-> "where", ok |-> r.ok, err |-> r.err, out |-> r.out]
  /\ args' = andArgument(cur(h), args)
  /\ left' = left - 1
  /\ UNCHANGED obj

InitHeld ==
  /\ store = (1 :> NewData)
  /\ obj = [b |-> 1, c |-> 0]
  /\ last = [h |-> "b", op |-> "new", ok |-> TRUE, err |-> "", out |-> <<>>]
  /\ left = MaxDepth
  /\ args \in HeldMaps

NextHeld ==
  \/ From("b") \/ Select("b") \/ Delete("b") \/ WhereHeld("b") \/ Build("b")

SpecHeld == InitHeld /\ [][NextHeld]_vars

----------------------------------------------------------------------------
(* Properties                                                              *)

(* The builders the caller holds *)
Held == {h \in Handles : obj[h] # 0}

TypeSetters ==
  {"select", "selectDistinct", "count", "update", "insert", "delete", "sql"}

TableSetters == {"table", "from", "into"}

UpdateTypes == {"UPDATE", "INSERT_OR_UPDATE"}

(* sub occurs in text as a run of consecutive symbols *)
Contains(text, sub) ==
  \E i \in 0..(Len(text) - Len(sub)) : SubSeq(text, i + 1, i + Len(sub)) = sub

(* The settings build() reads besides the type and the table name *)
Settings(d) ==
  <<d.fields, d.conditions, d.joinTables, d.mapTableToAlias, d.mapAliasToTable,
    d.update, d.insert, d.insertRows, d.orderFields, d.orderBy, d.groupBy,
    d.offsetRows, d.limitRows, d.limit>>

(* C1: on every builder on which build() returns a text, calling build()   *)
(* again without a call in between returns the same text.                  *)
C1_BuildIdempotent ==
  \A h \in Held :
    LET r1 == build(cur(h))
        r2 == build(r1.d)
    IN  r1.ok => (r2.ok /\ Str(r2.out) = Str(r1.out))

(* C2: after build() has returned, the field list, the condition list, the *)
(* join list, the alias maps, the assignment list, the insert payload and  *)
(* the order, group and limit state are what they were before it, and a    *)
(* fields() call that was accepted before build() is accepted after it.    *)
C2_BuildSideEffectFree ==
  \A h \in Held :
    LET d == cur(h)
        r == build(d)
    IN  r.ok =>
          /\ Settings(r.d) = Settings(d)
          /\ \A fs \in FieldArgs : fields(d, fs).ok => fields(r.d, fs).ok

(* C3: once c = b.clone() has been made, a call on one of the two builders *)
(* changes neither the state of the other nor the text its build() returns.*)
C3_CloneIndependent ==
  [][\A h \in Handles : \A g \in Handles \ {h} :
       (obj[h] # 0 /\ obj[g] # 0 /\ last'.h = h /\ last'.op # "clone") =>
         /\ store'[obj'[g]] = store[obj[g]]
         /\ build(store'[obj'[g]]).out = build(store[obj[g]]).out]_vars

(* A call on the clone succeeded and changed it, and the original differs *)
C3_Witness ==
  /\ obj["c"] # 0
  /\ last.h = "c" /\ last.op = "from" /\ last.ok
  /\ cur("c").tableName = StrV(T("t"))
  /\ cur("b").tableName = undefined

(* C4: once the type of a builder is set, every call of select,            *)
(* selectDistinct, count, update, insert, delete or sql on it fails, and   *)
(* the type keeps its value except for the change from INSERT to           *)
(* INSERT_OR_UPDATE that onDuplicateKeyUpdate makes.                       *)
C4_TypeWriteOnce ==
  [][\A h \in Handles :
       (obj[h] # 0 /\ cur(h).type # "") =>
         /\ (last'.h = h /\ last'.op \in TypeSetters) =>
              (~last'.ok /\ last'.err = ErrType)
         /\ \/ store'[obj[h]].type = cur(h).type
            \/ /\ cur(h).type = "INSERT"
               /\ store'[obj[h]].type = "INSERT_OR_UPDATE"
               /\ last'.h = h /\ last'.op = "onDuplicateKeyUpdate"]_vars

(* A type-setting call has just failed on a builder whose type was set *)
C4_Witness ==
  /\ last.op \in TypeSetters /\ ~last.ok /\ last.err = ErrType
  /\ cur(last.h).type # ""

(* C5: onDuplicateKeyUpdate() succeeds exactly when the type is INSERT and *)
(* one row was inserted; it then sets the type to INSERT_OR_UPDATE, and    *)
(* when it fails the type is unchanged.                                    *)
C5_OnDuplicateKeyUpdate ==
  [][\A h \in Handles :
       (obj[h] # 0 /\ last'.h = h /\ last'.op = "onDuplicateKeyUpdate") =>
         /\ last'.ok <=> (cur(h).type = "INSERT" /\ cur(h).insertRows = 1)
         /\ last'.ok => store'[obj[h]].type = "INSERT_OR_UPDATE"
         /\ ~last'.ok => store'[obj[h]].type = cur(h).type]_vars

(* onDuplicateKeyUpdate() has just succeeded *)
C5_Witness ==
  /\ last.op = "onDuplicateKeyUpdate" /\ last.ok
  /\ cur(last.h).type = "INSERT_OR_UPDATE"
  /\ cur(last.h).insertRows = 1

(* C6: after the first table(), from() or into() call on a builder, every  *)
(* later such call fails and the table name and its escaped form keep the  *)
(* value the first call gave them.                                         *)
C6_TableWriteOnce ==
  [][\A h \in Handles :
       (/\ obj[h] # 0 /\ cur(h).tableName # undefined
        /\ last'.h = h /\ last'.op \in TableSetters) =>
         /\ ~last'.ok
         /\ store'[obj[h]].tableName = cur(h).tableName
         /\ store'[obj[h]].tableNameEscaped = cur(h).tableNameEscaped]_vars

(* C7: build() fails on every builder whose table name has not been set,   *)
(* and on every builder whose type was never set.                          *)
C7_BuildNeedsTableAndType ==
  \A h \in Held :
    (cur(h).tableName = undefined \/ cur(h).type = "") => ~build(cur(h)).ok

(* build() has just failed for the missing table name, the type being set *)
C7_Witness ==
  /\ last.op = "build" /\ ~last.ok /\ last.err = ErrMissingTable
  /\ cur(last.h).tableName = undefined
  /\ cur(last.h).type # ""

(* C8: on an UPDATE or INSERT_OR_UPDATE builder build() fails while the    *)
(* assignment list is empty; once it holds a fragment, build() (the table  *)
(* name being set) succeeds and renders the fragments joined by ', ';      *)
(* a set() call adds its fragment after the ones already there.            *)
C8_UpdateFragments ==
  [][\A h \in Handles :
       obj[h] # 0 =>
         LET d == cur(h)
             e == store'[obj[h]]
             r == build(e)
         IN  /\ (e.type \in UpdateTypes /\ e.update = <<>>) => ~r.ok
             /\ (e.type \in UpdateTypes /\ e.update # <<>> /\ hasTableName(e)) =>
                  /\ r.ok
                  /\ Contains(r.out,
                       <<IF e.type = "UPDATE" THEN "SET" ELSE "UPDATE", " ">>
                       \o Join(e.update, <<",", " ">>))
             /\ (last'.h = h /\ last'.op = "set" /\ last'.ok) =>
                  \/ e.update = d.update
                  \/ /\ Len(e.update) = Len(d.update) + 1
                     /\ SubSeq(e.update, 1, Len(d.update)) = d.update]_vars

(* build() has just rendered two fragments of an UPDATE in call order *)
C8_Witness ==
  /\ last.op = "build" /\ last.ok
  /\ cur("b").type = "UPDATE"
  /\ Len(cur("b").update) = 2
  /\ Str(last.out) = "UPDATE ^t^ SET ^a^=1, c=3"

(* C9: set() fails unless the type is UPDATE or INSERT_OR_UPDATE, and a    *)
(* set() that fails adds no fragment.                                      *)
C9_SetNeedsUpdateType ==
  [][\A h \in Handles :
       (obj[h] # 0 /\ last'.h = h /\ last'.op = "set") =>
         /\ cur(h).type \notin UpdateTypes =>
              (~last'.ok /\ last'.err = ErrSetType)
         /\ ~last'.ok => store'[obj[h]].update = cur(h).update]_vars

(* set() has just failed on a builder whose type is not an update type *)
C9_Witness ==
  /\ last.op = "set" /\ ~last.ok /\ last.err = ErrSetType
  /\ cur(last.h).type \notin UpdateTypes
  /\ cur(last.h).type # ""

(* C10: having() fails while no GROUP BY text is stored, and the text is   *)
(* stored only by groupBy(); a having() that succeeds appends ' HAVING '   *)
(* and its condition to the stored text, and build() of a SELECT renders   *)
(* 'GROUP BY <fields> HAVING <condition>'.                                 *)
C10_HavingAfterGroupBy ==
  [][\A h \in Handles :
       obj[h] # 0 =>
         LET d == cur(h)
             e == store'[obj[h]]
         IN  /\ (Len(d.groupBy) = 0 /\ Len(e.groupBy) > 0) =>
                  (last'.h = h /\ last'.op \in {"groupBy", "options"} /\ last'.ok)
             /\ (last'.h = h /\ last'.op = "having") =>
                  /\ Len(d.groupBy) = 0 => (~last'.ok /\ last'.err = ErrHaving)
                  /\ last'.ok =>
                       /\ SubSeq(d.groupBy, 1, 4) = <<"GROUP", " ", "BY", " ">>
                       /\ \E tpl \in HavingArgs :
                            e.groupBy = d.groupBy \o <<" ", "HAVING", " ">> \o tpl
                       /\ (e.type \in {"SELECT", "SELECT DISTINCT"}
                           /\ hasTableName(e)) =>
                            /\ build(e).ok
                            /\ Contains(build(e).out, e.groupBy)]_vars

(* build() has just rendered a SELECT grouped by g with a HAVING condition *)
C10_Witness ==
  /\ last.op = "build" /\ last.ok
  /\ Str(last.out) = "SELECT * FROM ^t^ GROUP BY ^g^ HAVING n>1"

AliasesInUse(d) ==
  ((IF d.tableName.k = "string" THEN {aliasOf(d, d.tableName.s)} ELSE {})
   \cup {joinAlias(d, d.joinTables[i]) : i \in 1..Len(d.joinTables)}) \ {<<>>}

(* C12: as(name) fails when name is already the alias of the table or of a *)
(* join entry of the builder, and the call that fails changes neither the  *)
(* alias maps nor a join entry.                                            *)
C12_AliasRegisteredOnce ==
  \A h \in Held : \A name \in AliasNames :
    LET d == cur(h)
        r == as(d, name)
    IN  name \in AliasesInUse(d) =>
          /\ ~r.ok /\ r.err = ErrAlias
          /\ r.d.mapAliasToTable = d.mapAliasToTable
          /\ r.d.mapTableToAlias = d.mapTableToAlias
          /\ r.d.joinTables = d.joinTables

(* as("A") has just failed on a join entry, A being the alias of the table *)
C12_Witness ==
  /\ last.op = "as" /\ ~last.ok /\ last.err = ErrAlias
  /\ aliasOf(cur("b"), T("t")) = T("A")
  /\ Len(cur("b").joinTables) = 1
  /\ cur("b").joinTables[1].alias = <<>>

(* C13: an as(name) that succeeds on a builder without join entry makes    *)
(* name the alias of the table; on a builder with join entries it makes    *)
(* name the alias of the entry added last and leaves the alias build()     *)
(* attaches to the table and to each earlier entry as it was.              *)
C13_AsAliasesCurrentOnly ==
  \A h \in Held : \A name \in AliasNames :
    LET d == cur(h)
        n == Len(d.joinTables)
        r == as(d, name)
    IN  (r.ok /\ d.tableName.k = "string") =>
          /\ n = 0 => aliasOf(r.d, d.tableName.s) = name
          /\ n > 0 =>
               /\ joinAlias(r.d, r.d.joinTables[n]) = name
               /\ aliasOf(r.d, d.tableName.s) = aliasOf(d, d.tableName.s)
               /\ \A i \in 1..(n - 1) :
                    joinAlias(r.d, r.d.joinTables[i]) = joinAlias(d, d.joinTables[i])

(* The types of the statements that modify or are given as text *)
ModifyTypes == {"UPDATE", "DELETE", "INSERT", "INSERT_OR_UPDATE", "CUSTOM"}

(* The conditions without content: the empty string, a string of white     *)
(* space, the empty mapping                                                *)
Vacuous == {StrV(<<>>), StrV(<<" ">>), Obj(<<>>)}

(* C14: on a builder of type UPDATE, DELETE, INSERT, INSERT_OR_UPDATE or   *)
(* CUSTOM, where() and and() with a condition without content fail with    *)
(* the condition-cannot-be-empty error; on a SELECT builder they succeed,  *)
(* and build() renders what it rendered without the call, with no WHERE    *)
(* when no other condition was given.                                      *)
C14_VacuousCondition ==
  \A h \in Held : \A c \in Vacuous :
    LET d == cur(h)
        w == where(d, c, undefined)
        a == and(d, c, undefined)
    IN  /\ d.type \in ModifyTypes =>
             /\ ~w.ok /\ w.err = ErrEmptyCondition
             /\ ~a.ok /\ a.err = ErrEmptyCondition
        /\ d.type = "SELECT" =>
             /\ w.ok /\ a.ok
             /\ hasTableName(d) =>
                  /\ build(w.d).ok
                  /\ build(w.d).out = build(d).out
                  /\ build(a.d).out = build(d).out
                  /\ trimConditions(d) = <<>> =>
                       ~Contains(build(w.d).out, <<"WHERE">>)

(* The keys of a mapping whose value is undefined, in the mapping's order *)
UndefinedKeys(c) ==
  IF c.k = "object"
  THEN [i \in 1..Len(SelectSeq(c.l, LAMBDA p : p[2] = undefined)) |->
          SelectSeq(c.l, LAMBDA p : p[2] = undefined)[i][1]]
  ELSE <<>>

(* C15: where() and and() with a mapping that has keys whose value is      *)
(* undefined fail on a builder of every type, SELECT included, with the    *)
(* message that names all these keys, and leave the builder as it was.     *)
C15_UndefinedKeysRejected ==
  \A h \in Held : \A c \in ConditionArgs :
    LET d == cur(h)
        w == where(d, c, undefined)
        a == and(d, c, undefined)
        msg == "Found undefined value for condition keys "
               \o Str(Join(UndefinedKeys(c), <<",">>))
               \o "; it may cause unexpected errors"
    IN  UndefinedKeys(c) # <<>> =>
          /\ ~w.ok /\ w.err = msg /\ w.d = d
          /\ ~a.ok /\ a.err = msg /\ a.d = d

(* where() with the keys b and c undefined has just failed on a SELECT     *)
(* builder that holds a condition                                          *)
C15_Witness ==
  /\ last.op = "where" /\ ~last.ok
  /\ last.err = "Found undefined value for condition keys b,c; it may cause unexpected errors"
  /\ cur(last.h).type = "SELECT"
  /\ Len(cur(last.h).conditions) = 1

(* The fragments a condition stands for: a string is one fragment; a       *)
(* mapping gives its $raw text and then one fragment field=value for each  *)
(* other key, in the order of the keys                                     *)
Fragments(c) ==
  IF c.k = "string" THEN <<c.s>>
  ELSE LET raw == SelectSeq(c.l, LAMBDA p : p[1] = T("$raw"))
           rest == SelectSeq(c.l, LAMBDA p : p[1] # T("$raw"))
       IN  [i \in 1..Len(raw) |-> raw[i][2].s]
           \o [i \in 1..Len(rest) |->
                 <<BQ>> \o rest[i][1] \o <<BQ, "=", ToString(rest[i][2].n)>>]

(* The WHERE clause of the conditions cs: those with content, without the  *)
(* white space around them, with AND between them                          *)
WhereText(cs) ==
  LET kept == SelectSeq([i \in 1..Len(cs) |-> trim(cs[i])], LAMBDA f : f # <<>>)
  IN  IF kept = <<>> THEN <<>> ELSE <<"WHERE", " ">> \o Join(kept, <<" ", "AND", " ">>)

(* C16: where() and and() have the same outcome; one that succeeds adds    *)
(* the fragments of its condition after those already stored; build() of a *)
(* SELECT or DELETE renders the stored fragments that have content in      *)
(* their order with ' AND ' between them, and no WHERE when none has.      *)
C16_WhereFragments ==
  \A h \in Held : \A c \in ConditionArgs :
    LET d == cur(h)
        w == where(d, c, undefined)
        r == build(w.d)
    IN  /\ \A v \in {undefined, Arr(<<>>)} : and(d, c, v) = where(d, c, v)
        /\ w.ok =>
             /\ w.d.conditions = d.conditions \o Fragments(c)
             /\ (w.d.type \in {"SELECT", "DELETE"} /\ hasTableName(w.d)) =>
                  /\ r.ok
                  /\ IF WhereText(w.d.conditions) = <<>>
                     THEN ~Contains(r.out, <<"WHERE">>)
                     ELSE /\ Contains(r.out, <<" ">> \o WhereText(w.d.conditions))
                          /\ ~Contains(r.out, <<"AND", " ", "AND">>)

(* build() has just rendered the fragments of a where() and an and() call  *)
(* in the order of the calls                                               *)
C16_Witness ==
  /\ last.op = "build" /\ last.ok
  /\ Str(last.out) = "SELECT * FROM ^t^ WHERE ^a^=1 AND r AND ^b^=2"

(* C17: where() and and() with a mapping that has the key $raw add the     *)
(* text of $raw as it is, as a fragment of its own before the fragments of *)
(* the other keys, one fragment for each other key, and no fragment that   *)
(* compares a field named $raw.                                            *)
C17_RawFragmentFirst ==
  \A h \in Held : \A c \in ConditionArgs :
    LET d == cur(h)
        w == where(d, c, undefined)
        n == Len(d.conditions)
        new == SubSeq(w.d.conditions, n + 1, Len(w.d.conditions))
    IN  (c.k = "object" /\ hasKey(c, T("$raw")) /\ w.ok) =>
          /\ SubSeq(w.d.conditions, 1, n) = d.conditions
          /\ Len(new) = Len(c.l)
          /\ new[1] = getKey(c, T("$raw")).s
          /\ \A i \in 2..Len(new) :
               /\ ~Contains(new[i], T("$raw"))
               /\ \E p \in {c.l[j] : j \in 1..Len(c.l)} :
                    p[1] # T("$raw") /\ SubSeq(new[i], 1, 3) = <<BQ>> \o p[1] \o <<BQ>>
          /\ and(d, c, undefined) = w

(* where() with the mapping {b: 2, $raw: "r"} has just added the fragment  *)
(* r and after it the fragment of b                                        *)
C17_Witness ==
  /\ last.op = "where" /\ last.ok
  /\ cur(last.h).conditions = << <<"r">>, <<BQ, "b", BQ, "=", "2">> >>

(* The LIMIT text for an offset and a limit *)
LimitText(offsetRows, limitRows) ==
  IF limitRows > 0 /\ offsetRows = 0
  THEN <<"LIMIT", " ", ToString(limitRows)>>
  ELSE IF limitRows > 0 /\ offsetRows > 0
  THEN <<"LIMIT", " ", ToString(offsetRows), ",", ToString(limitRows)>>
  ELSE IF limitRows = 0 /\ offsetRows > 0
  THEN <<"LIMIT", " ", ToString(offsetRows), ",", "18446744073709551615">>
  ELSE <<>>

(* C18: in every state of a builder the LIMIT text is the one its offset   *)
(* and its limit give: 'LIMIT limit', 'LIMIT offset,limit', 'LIMIT offset, *)
(* 18446744073709551615', or none when both are 0; build() of a SELECT     *)
(* renders this text at the end, and no LIMIT when there is none.          *)
C18_LimitText ==
  \A h \in Held :
    LET d == cur(h)
        t == LimitText(d.offsetRows, d.limitRows)
        r == build(d)
    IN  /\ d.limit = t
        /\ (d.type = "SELECT" /\ hasTableName(d)) =>
             /\ r.ok
             /\ IF t = <<>> THEN ~Contains(r.out, <<"LIMIT">>)
                ELSE SubSeq(r.out, Len(r.out) - Len(t) + 1, Len(r.out)) = t

(* A name between backticks *)
Quoted(name) == <<BQ>> \o name \o <<BQ>>

(* The prefix of the fields of the table: its alias, else its name *)
TablePrefix(d) ==
  IF aliasOf(d, d.tableName.s) # <<>>
  THEN Quoted(aliasOf(d, d.tableName.s)) ELSE Quoted(d.tableName.s)

(* The prefix of the fields of a join entry: its alias, else its name *)
JoinPrefix(d, item) ==
  IF joinAlias(d, item) # <<>> THEN Quoted(joinAlias(d, item)) ELSE Quoted(item.table)

(* A field under a prefix; quoted tells that the field is stored between   *)
(* backticks already                                                       *)
Prefixed(prefix, f, quoted) ==
  IF f = T("*") THEN prefix \o <<".", "*">>
  ELSE IF Contains(f, <<" ", "as", " ">>) THEN f
  ELSE prefix \o <<".">> \o (IF quoted THEN f ELSE Quoted(f))

RECURSIVE JoinedFields(_, _)
JoinedFields(d, i) ==
  IF i > Len(d.joinTables) THEN <<>>
  ELSE [k \in 1..Len(d.joinTables[i].fields) |->
          Prefixed(JoinPrefix(d, d.joinTables[i]), d.joinTables[i].fields[k], FALSE)]
       \o JoinedFields(d, i + 1)

(* The field list of a SELECT as the claim resolves it *)
ResolvedFields(d) ==
  LET fs == IF Len(d.joinTables) = 0 THEN d.fields
            ELSE [k \in 1..Len(d.fields) |-> Prefixed(TablePrefix(d), d.fields[k], TRUE)]
                 \o JoinedFields(d, 1)
  IN  IF fs = <<>> THEN << T("*") >> ELSE fs

(* C19: build() of a SELECT renders, after SELECT and before FROM, the     *)
(* field list resolved this way: without join the stored fields as they    *)
(* are; with joins the stored fields under the alias of the table, else    *)
(* under its quoted name, then the fields of each join entry in the order  *)
(* of the joins under the alias of the entry, else under its quoted name;  *)
(* '*' becomes prefix.*, a field with ' as ' gets no prefix; with no field *)
(* at all the list is '*'.                                                 *)
C19_SelectFieldResolution ==
  \A h \in Held :
    LET d == cur(h)
        r == build(d)
        head == <<"SELECT", " ">> \o Join(ResolvedFields(d), <<",", " ">>)
                \o <<" ", "FROM", " ">>
    IN  (d.type = "SELECT" /\ hasTableName(d)) =>
          /\ r.ok
          /\ SubSeq(r.out, 1, Len(head)) = head

(* build() has just rendered the fields of an aliased table and of an      *)
(* aliased join                                                            *)
C19_Witness ==
  /\ last.op = "build" /\ last.ok
  /\ Str(last.out) = "SELECT ^t^.*, ^t^.^a^, n as m, ^B^.^z^, ^B^.* FROM ^t^ JOIN ^u^ AS ^B^"

(* C20: on a builder whose field list is not empty, fields(), select() and *)
(* selectDistinct() with fields and options() with the key fields fail,    *)
(* and the field list keeps its value.                                     *)
C20_FieldsSetOnce ==
  \A h \in Held :
    LET d == cur(h)
    IN  Len(d.fields) > 0 =>
          /\ \A fs \in FieldArgs :
               /\ ~fields(d, fs).ok /\ fields(d, fs).err = ErrFields
               /\ fields(d, fs).d.fields = d.fields
               /\ fs # <<>> =>
                    /\ ~select(d, fs).ok
                    /\ select(d, fs).d.fields = d.fields
                    /\ ~selectDistinct(d, fs).ok
                    /\ selectDistinct(d, fs).d.fields = d.fields
          /\ \A o \in OptionsArgs :
               hasKey(o, T("fields")) =>
                 /\ ~options(d, o).ok /\ options(d, o).err = ErrFields
                 /\ options(d, o).d.fields = d.fields

(* fields() has just failed on a builder whose field list select() set *)
C20_Witness ==
  /\ last.op = "fields" /\ ~last.ok /\ last.err = ErrFields
  /\ cur(last.h).type = "SELECT"
  /\ cur(last.h).fields = << T("*"), <<BQ, "a", BQ>>, <<"n", " ", "as", " ", "m">> >>

(* The columns of a row, as a set *)
Columns(row) == {ObjectKeys(row)[i] : i \in 1..Len(ObjectKeys(row))}

(* The lists of rows in RowListArgs: one or more objects *)
RowLists == {data.l : data \in {a \in RowListArgs : a.k = "array" /\ a.l # <<>>
                                   /\ \A i \in 1..Len(a.l) : a.l[i].k = "object"}}

(* The tuple of a row: its escaped values in the order of the columns cols *)
Tuple(row, cols) ==
  <<"(">> \o Join([i \in 1..Len(cols) |-> sqlEscape(getKey(row, cols[i]))], <<",", " ">>)
  \o <<")">>

(* The INSERT statement of a list of rows into the table named name *)
InsertText(name, rows) ==
  LET cols == ObjectKeys(rows[1])
  IN  <<"INSERT", " ", "INTO", " ">> \o sqlEscapeId(StrV(name)) \o <<" ", "(">>
      \o Join([i \in 1..Len(cols) |-> sqlEscapeId(StrV(cols[i]))], <<",", " ">>)
      \o <<")", " ", "VALUES", " ">>
      \o Join([i \in 1..Len(rows) |-> Tuple(rows[i], cols)], <<",", "\n">>)

(* C21: on a builder without a type, insert(rows) succeeds exactly when    *)
(* every row has exactly the columns of the first row, and build() then    *)
(* returns INSERT INTO <table> (<columns of the first row>) VALUES with    *)
(* one parenthesized tuple per row in row order, separated by a comma and  *)
(* a newline.                                                              *)
C21_InsertRows ==
  \A rows \in RowLists :
    (cur("b").type = "" /\ truthy(cur("b").tableName)) =>
      LET r == insert(cur("b"), Arr(rows))
      IN  /\ r.ok <=> \A i \in 1..Len(rows) : Columns(rows[i]) = Columns(rows[1])
          /\ r.ok => build(r.d).out = InsertText(cur("b").tableName.s, rows)

(* What insert() does check: every row holds every column of the first row *)
C21_MissingColumnFails ==
  \A rows \in RowLists :
    (cur("b").type = "" /\ truthy(cur("b").tableName)) =>
      LET r == insert(cur("b"), Arr(rows))
      IN  /\ r.ok <=> \A i \in 1..Len(rows) : Columns(rows[1]) \subseteq Columns(rows[i])
          /\ r.ok => build(r.d).out = InsertText(cur("b").tableName.s, rows)

(* A row with a column the first row lacks was inserted, and the statement *)
(* holds no value of that column                                           *)
C21_ExtraColumnDropped ==
  /\ last.op = "build" /\ last.ok
  /\ last.out = InsertText(T("t"), <<Row(1), Row(2)>>)
  /\ cur("b").insertRows = 2

(* The template tpl with the macros of the builder d replaced *)
MacroText(d, tpl) == sqlFormatObject(tpl, customValues(d), TRUE).v

(* The values of sql(tpl, values) applied to a text through the formatter: *)
(* sqlFormat for an array, sqlFormatObject for a mapping                   *)
Formatted(text, values) ==
  IF values.k = "array" THEN sqlFormat(text, values.l)
  ELSE IF values.k = "object" THEN sqlFormatObject(text, values, FALSE)
  ELSE Ok(text)

(* C22: on a builder with a table and no type, after sql(tpl, values)      *)
(* build() returns the template with the macros replaced from the builder  *)
(* state and then the values applied through the formatter, for an array   *)
(* of positional values and for a mapping of named values.                 *)
C22_CustomValues ==
  \A tpl \in CustomTemplates, values \in CustomValues :
    (cur("b").type = "" /\ hasTableName(cur("b"))) =>
      LET r == sql(cur("b"), tpl, values)
      IN  /\ r.ok
          /\ build(r.d).ok
          /\ build(r.d).out = trim(Formatted(MacroText(r.d, tpl), values).v)

(* The same for the values sql() keeps: an array, or no values *)
C22_PositionalValues ==
  \A tpl \in CustomTemplates, values \in {v \in CustomValues : v.k # "object"} :
    (cur("b").type = "" /\ hasTableName(cur("b"))) =>
      LET r == sql(cur("b"), tpl, values)
      IN  /\ r.ok
          /\ build(r.d).ok
          /\ build(r.d).out = trim(Formatted(MacroText(r.d, tpl), values).v)

(* sql() drops a mapping of named values: the placeholder :v is built as   *)
(* it was written                                                          *)
C22_NamedValuesDropped ==
  \A tpl \in CustomTemplates, values \in {v \in CustomValues : v.k = "object"} :
    (cur("b").type = "" /\ hasTableName(cur("b"))) =>
      LET r == sql(cur("b"), tpl, values)
      IN  /\ r.d.sqlValues = <<>>
          /\ build(r.d).out = trim(MacroText(r.d, tpl))

(* The macros of a statement built after orderBy() and limit() *)
C22_MacrosReplaced ==
  /\ last.op = "build" /\ last.ok
  /\ cur("b").sqlValues = <<Num(1), Num(2)>>
  /\ Str(last.out) = "SELECT  FROM ^t^ WHERE a=1 ORDER BY a DESC LIMIT 2"

(* The rendered fragment of an and() / or() call that returned *)
Fragment(call) ==
  IF call[2].k = "string" THEN exprFormat(call[2].s, orEmpty(call[3])).v
  ELSE arrayToString(sqlConditionStrings(call[2]).v)

(* f1 ' ' c2 ' ' f2 ... ' ' cn ' ' fn for the calls from call i on *)
RECURSIVE Chain(_, _)
Chain(calls, i) ==
  IF i > Len(calls) THEN <<>>
  ELSE (IF i = 1 THEN <<>> ELSE <<" ", calls[i][1], " ">>)
       \o Fragment(calls[i]) \o Chain(calls, i + 1)

(* C23: on an Expression on which n >= 1 and() / or() calls have returned, *)
(* build() returns '(' f1 ' ' c2 ' ' f2 ... ' ' cn ' ' fn ')' of their     *)
(* connectors and rendered fragments, and leaves the expression as it was. *)
C23_BuildText ==
  args # <<>> =>
    /\ expressionBuild(cur("b")).ok
    /\ expressionBuild(cur("b")).out = <<"(">> \o Chain(args, 1) \o <<")">>
    /\ expressionBuild(cur("b")).d = cur("b")

(* A fragment build() leaves as it is: not blank, without blanks at its    *)
(* ends and not beginning with a connector                                 *)
PlainFragment(f) == f # <<>> /\ trim(f) = f /\ Head(f) \notin {"AND", "OR"}

(* The same for fragments that are plain *)
C23_PlainBuildText ==
  (args # <<>> /\ \A i \in 1..Len(args) : PlainFragment(Fragment(args[i]))) =>
    /\ expressionBuild(cur("b")).ok
    /\ expressionBuild(cur("b")).out = <<"(">> \o Chain(args, 1) \o <<")">>
    /\ expressionBuild(cur("b")).d = cur("b")

(* build() returned after two plain fragments *)
C23_PlainWitness ==
  /\ last.op = "build" /\ last.ok
  /\ Str(last.out) = "(a=1 OR ^a^=1)"

(* build() returned the connector of the only fragment, a blank one *)
C23_ConnectorKept ==
  /\ last.op = "build" /\ last.ok
  /\ args = << <<"AND", Obj(<<>>), undefined>> >>
  /\ Str(last.out) = "(AND)"

(* C24: build() of an Expression fails exactly when no and() / or() call   *)
(* has returned on it; once one has returned, the type is 'condition' and  *)
(* build() returns a text, in that state and in every later one.           *)
C24_BuildFailsOnlyWhenEmpty ==
  /\ args = <<>> <=> ~expressionBuild(cur("b")).ok
  /\ args = <<>> => cur("b") = NewExpression
  /\ args # <<>> => cur("b").type = "condition"
  /\ last.op = "build" => (last.ok <=> args # <<>>)

(* build() succeeded after a call that failed on an Expression with one    *)
(* fragment                                                                *)
C24_Witness ==
  /\ last.op = "build" /\ last.ok
  /\ Len(args) = 1
  /\ left = MaxCalls - 3

(* The text a value renders to at a placeholder of k marks: an escaped     *)
(* value, an escaped identifier, or for three marks a string as it is or   *)
(* the parenthesized build() of a builder                                  *)
Rendered(k, v) ==
  CASE k = 1 -> Ok(sqlEscape(v))
    [] k = 2 -> Ok(sqlEscapeId(v))
    [] OTHER ->
         IF v.k = "string" THEN Ok(v.s)
         ELSE IF v.k = "builder" /\ v.n = 1 THEN Ok(<<"(">> \o v.s \o <<")">>)
         ELSE Err("not a string or builder")

(* The pieces from left to right, each placeholder of one to three marks   *)
(* taking the next of the values from value j on; a placeholder without a  *)
(* value and a longer run of marks stay as written                         *)
RECURSIVE Scan(_, _, _)
Scan(pieces, values, j) ==
  IF pieces = <<>> THEN Ok(<<>>)
  ELSE Let(Head(pieces), LAMBDA p :
         IF p.k = 0 \/ p.k > 3 \/ j > Len(values)
         THEN Then(Scan(Tail(pieces), values, j), LAMBDA r : Ok(Tpl(<<p>>) \o r))
         ELSE Then(Rendered(p.k, values[j]), LAMBDA t :
              Then(Scan(Tail(pieces), values, j + 1), LAMBDA r : Ok(t \o r))))

(* The outcome of the last call is the outcome r *)
Outcome(r) == last.ok = r.ok /\ (r.ok => last.out = r.v)

(* Some string or builder among the values holds a '?' *)
MarkInValues(values) ==
  \E i \in 1..Len(values) :
    values[i].k \in {"string", "builder"}
    /\ \E n \in 1..Len(values[i].s) : values[i].s[n] = "?"

(* The number of placeholders of one to three marks *)
RECURSIVE Marks(_)
Marks(pieces) ==
  IF pieces = <<>> THEN 0
  ELSE (IF Head(pieces).k \in 1..3 THEN 1 ELSE 0) + Marks(Tail(pieces))

(* C25: sqlFormat(tpl, values), for values without a '?' in their text,    *)
(* returns the template with each '?', '??' and '???' from left to right   *)
(* replaced by the rendering of the next value (it fails when the value of *)
(* a '???' is neither a string nor a builder); the placeholders beyond the *)
(* number of values, of any of the three kinds, stay as written and the    *)
(* values beyond the number of placeholders are ignored.                   *)
C25_Placeholders ==
  (last.op = "sqlFormat" /\ ~MarkInValues(args.values)) =>
    Outcome(Scan(args.pieces, args.values, 1))

(* The same for the calls whose placeholders all have a value and whose    *)
(* template has no run of more than three marks                            *)
C25_PlaceholdersWithValues ==
  (/\ last.op = "sqlFormat" /\ ~MarkInValues(args.values)
   /\ Marks(args.pieces) <= Len(args.values)
   /\ \A i \in 1..Len(args.pieces) : args.pieces[i].k <= 3) =>
    Outcome(Scan(args.pieces, args.values, 1))

(* The placeholders '?' and '??' beyond the number of values stay as       *)
(* written                                                                 *)
C25_PlaceholdersWithoutTriple ==
  (/\ last.op = "sqlFormat" /\ ~MarkInValues(args.values)
   /\ \A i \in 1..Len(args.pieces) : args.pieces[i].k <= 2) =>
    Outcome(Scan(args.pieces, args.values, 1))

(* A '???' beyond the number of values makes sqlFormat fail *)
C25_TripleWithoutValue ==
  /\ last.op = "sqlFormat" /\ ~last.ok
  /\ Str(Tpl(args.pieces)) = "x=? OR ???"
  /\ args.values = <<Num(1)>>

(* C26: in sqlFormat(tpl, values), for a call whose placeholders all have  *)
(* a value, the text spliced for a '???' appears in the result as given:   *)
(* a '?' in it is no placeholder and takes none of the values.             *)
C26_SplicedVerbatim ==
  (/\ last.op = "sqlFormat" /\ MarkInValues(args.values)
   /\ Marks(args.pieces) <= Len(args.values)
   /\ \A i \in 1..Len(args.pieces) : args.pieces[i].k <= 3) =>
    Outcome(Scan(args.pieces, args.values, 1))

(* The '?' of a spliced string took the value of the next placeholder *)
C26_SplicedRescanned ==
  /\ last.op = "sqlFormat" /\ last.ok
  /\ Str(Tpl(args.pieces)) = "??? AND b=?"
  /\ args.values = <<StrV(<<"a", "=", "?">>), Num(1), StrV(<<"it", "'", "s">>)>>
  /\ Str(last.out) = "a=1 AND b='it\\'s'"

(* The text that replaces a named placeholder of k colons *)
NamedRendered(p, values, disable) ==
  IF ~hasKey(values, p.t) THEN Ok(NamedTpl(<<p>>))
  ELSE IF disable THEN Ok(String(getKey(values, p.t)))
  ELSE Rendered(p.k, getKey(values, p.t))

(* The pieces from left to right, each placeholder replaced on its own *)
RECURSIVE NamedScan(_, _, _)
NamedScan(pieces, values, disable) ==
  IF pieces = <<>> THEN Ok(<<>>)
  ELSE Let(Head(pieces), LAMBDA p :
         IF p.k = 0
         THEN Then(NamedScan(Tail(pieces), values, disable), LAMBDA r : Ok(p.t \o r))
         ELSE Then(NamedRendered(p, values, disable), LAMBDA t :
              Then(NamedScan(Tail(pieces), values, disable), LAMBDA r : Ok(t \o r))))

C27_AbsentName ==
  /\ last.op = "sqlFormatObject" /\ last.ok /\ args.disable
  /\ Str(NamedTpl(args.pieces)) = ":nokey,::nokey,:::nokey :r"
  /\ Str(last.out) = ":nokey,::nokey,:::nokey 5"

(* The comparison operators and their symbols *)
Comparison ==
  [op \in {"$eq", "$ne", "$lt", "$lte", "$gt", "$gte"} |->
     CASE op = "$eq" -> <<"=">>
       [] op = "$ne" -> <<"<", ">">>
       [] op = "$lt" -> <<"<">>
       [] op = "$lte" -> <<"<", "=">>
       [] op = "$gt" -> <<">">>
       [] OTHER -> <<">", "=">>]

(* The keys of a value object all start with '$' *)
OperatorObject(info) ==
  /\ info.k = "object" /\ info.l # <<>>
  /\ \A i \in 1..Len(info.l) : Head(info.l[i][1]) \in DollarWords

(* The fragment of the operator op with operand v on the quoted field f *)
OperatorFragment(f, op, v) ==
  CASE op \in DOMAIN Comparison -> Ok(f \o Comparison[op] \o sqlEscape(v))
    [] op = "$like" /\ v.k = "string" -> Ok(f \o <<" ", "LIKE", " ">> \o sqlEscape(v))
    [] op = "$notLike" /\ v.k = "string" ->
         Ok(f \o <<" ", "NOT", " ", "LIKE", " ">> \o sqlEscape(v))
    [] op = "$isNull" /\ v = Bool(TRUE) -> Ok(f \o <<" ", "IS", " ", "NULL">>)
    [] op = "$isNotNull" /\ v = Bool(TRUE) ->
         Ok(f \o <<" ", "IS", " ", "NOT", " ", "NULL">>)
    [] op = "$raw" -> Ok(f \o <<"=">> \o String(v))
    [] op \in {"$in", "$notIn"} ->
         Let(f \o (IF op = "$in" THEN <<" ", "IN", " ", "(">>
                   ELSE <<" ", "NOT", " ", "IN", " ", "(">>),
             LAMBDA head :
               IF v.k = "builder" /\ v.n = 1 THEN Ok(head \o v.s \o <<")">>)
               ELSE IF v.k = "array" /\ v.l # <<>>
               THEN Ok(head \o Join([i \in 1..Len(v.l) |-> sqlEscape(v.l[i])],
                                    <<",", " ">>) \o <<")">>)
               ELSE IF v.k = "array"
               THEN Ok(<<IF op = "$in" THEN "0" ELSE "1", " ", "/", "*", " ", "empty",
                         " ", "list", " ", "warn", ":", " ">>
                       \o head \o <<")", " ", "*", "/">>)
               ELSE Err("operand"))
    [] OTHER -> Err("operator")

(* The fragments of the operators of a value object from operator j on *)
RECURSIVE OperatorFragments(_, _, _)
OperatorFragments(f, info, j) ==
  IF j > Len(info.l) THEN Ok(<<>>)
  ELSE Then(OperatorFragment(f, Head(info.l[j][1]), info.l[j][2]), LAMBDA one :
       Then(OperatorFragments(f, info, j + 1), LAMBDA r : Ok(<<one>> \o r)))

(* The fragments of the fields of a condition from field i on *)
RECURSIVE ConditionFragments(_, _)
ConditionFragments(condition, i) ==
  IF i > Len(condition.l) THEN Ok(<<>>)
  ELSE Let(sqlEscapeId(StrV(condition.l[i][1])), LAMBDA f :
       Let(condition.l[i][2], LAMBDA info :
       Then(IF OperatorObject(info) THEN OperatorFragments(f, info, 1)
            ELSE Ok(<< f \o <<"=">> \o sqlEscape(info) >>),
            LAMBDA one :
       Then(ConditionFragments(condition, i + 1), LAMBDA r : Ok(one \o r)))))

(* Some field of the condition has the operator $in or $notIn *)
HasListOperator(condition) ==
  \E i \in 1..Len(condition.l) :
    /\ OperatorObject(condition.l[i][2])
    /\ \E j \in 1..Len(condition.l[i][2].l) :
         Head(condition.l[i][2].l[j][1]) \in {"$in", "$notIn"}

(* C28: sqlConditionStrings(condition), for a condition without $in and    *)
(* $notIn, returns in the order of the fields 'field=<escaped value>' for  *)
(* a plain value and, for a value object whose keys all start with '$',    *)
(* one fragment per key in key order: $eq, $ne, $lt, $lte, $gt, $gte as =, *)
(* <>, <, <=, >, >= with the escaped operand, $like / $notLike for a       *)
(* string only, $isNull / $isNotNull for true only, $raw as                *)
(* 'field=<raw>'; it fails for another operand of these and for any other  *)
(* key that starts with '$'.                                               *)
C28_ConditionFragments ==
  (last.op = "sqlConditionStrings" /\ ~HasListOperator(args.data)) =>
    Outcome(ConditionFragments(args.data, 1))

(* A call that rendered two comparisons with a string operand *)
C28_Witness ==
  /\ last.op = "sqlConditionStrings" /\ last.ok
  /\ [i \in 1..Len(last.out) |-> Str(last.out[i])] = <<"^a^>1", "^a^>='x'", "^b^=NULL">>

(* A call that failed on an operator it does not know *)
C28_UnknownOperator ==
  /\ last.op = "sqlConditionStrings" /\ ~last.ok
  /\ args.data = Obj(<<Field("a", Op2("$eq", Num(1), "$bad", Num(2)))>>)

(* C29: sqlConditionStrings(condition), for a condition with $in or        *)
(* $notIn, renders 'field IN (<build text>)' / 'field NOT IN (...)' for a  *)
(* builder operand, the escaped elements joined by a comma for an array    *)
(* that is not empty, and for an empty array the text 0 for $in and 1 for  *)
(* $notIn followed by the comment 'empty list warn: field IN ()' /         *)
(* 'empty list warn: field NOT IN ()'; it fails for any other operand.     *)
C29_ListOperators ==
  (last.op = "sqlConditionStrings" /\ HasListOperator(args.data)) =>
    Outcome(ConditionFragments(args.data, 1))

(* A call that rendered an empty $notIn list *)
C29_Witness ==
  /\ last.op = "sqlConditionStrings" /\ last.ok
  /\ [i \in 1..Len(last.out) |-> Str(last.out[i])]
       = <<"^a^=1", "1 /* empty list warn: ^b^ NOT IN () */">>

(* A call that rendered lists and one that rendered builders *)
C29_Lists ==
  /\ last.op = "sqlConditionStrings" /\ last.ok
  /\ [i \in 1..Len(last.out) |-> Str(last.out[i])]
       \in {<<"^a^ IN (1, 'x')", "^b^ NOT IN (2, 3)">>,
            <<"^a^ IN (SELECT 1)", "^b^ NOT IN (SELECT 2)">>}

(* The assignment of the value info to the quoted field f *)
Assignment(f, info) ==
  IF info.k = "object" /\ Len(info.l) = 1 /\ Head(info.l[1][1]) \in DollarWords
  THEN Let(Head(info.l[1][1]), LAMBDA op :
       Let(info.l[1][2], LAMBDA v :
         CASE op = "$incr" -> Ok(f \o <<"=">> \o f \o <<"+", "(">> \o sqlEscape(v) \o <<")">>)
           [] op = "$decr" -> Ok(f \o <<"=">> \o f \o <<"-", "(">> \o sqlEscape(v) \o <<")">>)
           [] op = "$raw" -> Ok(f \o <<"=">> \o String(v))
           [] OTHER -> Err("operator")))
  ELSE Ok(f \o <<"=">> \o sqlEscape(info))

(* The assignments of the fields of data from field i on *)
RECURSIVE Assignments(_, _)
Assignments(data, i) ==
  IF i > Len(data.l) THEN Ok(<<>>)
  ELSE Then(Assignment(sqlEscapeId(StrV(data.l[i][1])), data.l[i][2]), LAMBDA one :
       Then(Assignments(data, i + 1), LAMBDA r : Ok(<<one>> \o r)))

UpdateText(data) == Then(Assignments(data, 1), LAMBDA r : Ok(Join(r, <<",", " ">>)))

(* A value with exactly one key, and that key does not start with '$' *)
OneOtherKey(info) ==
  \/ info.k = "object" /\ Len(info.l) = 1 /\ Head(info.l[1][1]) \notin DollarWords
  \/ info.k = "array" /\ Len(info.l) = 1

(* C30: sqlUpdateString(data) returns, joined by ', ', 'f=f+(v)' for a     *)
(* value {$incr: v}, 'f=f-(v)' for {$decr: v}, 'f=<raw>' for {$raw: raw}   *)
(* and 'f=<escaped value>' for a plain value; it fails for a value object  *)
(* of one key that starts with '$' and is none of these; a value object    *)
(* of more than one key, or of a key that does not start with '$', is      *)
(* rendered as 'f=<escaped object>'.                                       *)
C30_UpdateText ==
  last.op = "sqlUpdateString" => Outcome(UpdateText(args.data))

(* The same for the data without a value of one key that is no operator *)
C30_UpdateTextOperators ==
  (/\ last.op = "sqlUpdateString"
   /\ \A i \in 1..Len(args.data.l) : ~OneOtherKey(args.data.l[i][2])) =>
    Outcome(UpdateText(args.data))

(* A value of one key that is no operator makes sqlUpdateString fail *)
C30_OneOtherKeyFails ==
  (/\ last.op = "sqlUpdateString"
   /\ \E i \in 1..Len(args.data.l) : OneOtherKey(args.data.l[i][2])) =>
    ~last.ok

(* A call that failed on the value {x: 1} *)
C30_ObjectRejected ==
  /\ last.op = "sqlUpdateString" /\ ~last.ok
  /\ args.data = Obj(<<Field("a", Op("x", Num(1)))>>)

(* A call that rendered a value object of two keys as an escaped object *)
C30_Fallback ==
  /\ last.op = "sqlUpdateString" /\ last.ok
  /\ Str(last.out) = "^a^=^$incr^ = 1, ^$decr^ = 2"

(* The text with every backtick doubled *)
RECURSIVE Doubled(_)
Doubled(t) ==
  IF t = <<>> THEN <<>>
  ELSE (IF Head(t) = BQ THEN <<BQ, BQ>> ELSE <<Head(t)>>) \o Doubled(Tail(t))

(* The segments of a name between its dots *)
RECURSIVE Segments(_, _)
Segments(t, seg) ==
  IF t = <<>> THEN <<seg>>
  ELSE IF Head(t) = "." THEN <<seg>> \o Segments(Tail(t), <<>>)
  ELSE Segments(Tail(t), Append(seg, Head(t)))

(* The quoted identifier of a name *)
QuotedId(name, forbidQualified) ==
  IF forbidQualified THEN <<BQ>> \o Doubled(name) \o <<BQ>>
  ELSE Join([i \in 1..Len(Segments(name, <<>>)) |->
               <<BQ>> \o Doubled(Segments(name, <<>>)[i]) \o <<BQ>>],
            <<".">>)

(* The quoted identifiers of a value: of an array, those of its elements   *)
(* joined by a comma                                                       *)
RECURSIVE QuotedIds(_, _)
QuotedIds(val, forbidQualified) ==
  IF val.k = "array"
  THEN Join([i \in 1..Len(val.l) |-> QuotedIds(val.l[i], forbidQualified)], <<",", " ">>)
  ELSE QuotedId(String(val), forbidQualified)

(* C31: escapeId(val, forbidQualified) returns the name in backticks with  *)
(* every backtick of the name doubled; without forbidQualified every '.'   *)
(* splits the name into segments quoted one by one, with forbidQualified   *)
(* the dots stay inside the one quoted name; an array, nested to any       *)
(* depth, gives the quoted identifiers of its elements joined by a comma.  *)
C31_EscapeId ==
  last.op = "escapeId" => last.out = QuotedIds(args.val, args.flag)

(* A call on a nested array with a qualified name and a backtick *)
C31_Witness ==
  /\ last.op = "escapeId" /\ ~args.flag
  /\ args.val.k = "array"
  /\ Str(last.out) = "^a^, ^b^^^, ^t^.^c^"

(* A call with forbidQualified on a qualified name *)
C31_Forbidden ==
  /\ last.op = "escapeId" /\ args.flag
  /\ Str(last.out) = "^id^^1.i^^d2^"

(* The backslash escape of a character, and the character itself when it   *)
(* has none                                                                *)
BackslashEscape(c) ==
  IF c \in {NUL, BS, "\t", "\n", "\r", SUB, "'", "\"", "\\"}
  THEN <<"\\", CASE c = NUL -> "0" [] c = BS -> "b" [] c = "\t" -> "t"
                 [] c = "\n" -> "n" [] c = "\r" -> "r" [] c = SUB -> "Z"
                 [] OTHER -> c>>
  ELSE <<c>>

RECURSIVE Escaped(_)
Escaped(t) ==
  IF t = <<>> THEN <<>> ELSE BackslashEscape(Head(t)) \o Escaped(Tail(t))

(* The rendering of a value: of an array, the renderings of its elements   *)
(* joined by a comma, each nested array in parentheses                     *)
RECURSIVE EscapedValue(_)
EscapedValue(v) ==
  CASE v.k \in {"undefined", "null"} -> <<"NULL">>
    [] v.k = "boolean" -> IF v = Bool(TRUE) THEN <<"true">> ELSE <<"false">>
    [] v.k = "number" -> <<ToString(v.n)>>
    [] v.k = "raw" -> v.s
    [] v.k = "array" ->
         Join([i \in 1..Len(v.l) |->
                 IF v.l[i].k = "array"
                 THEN <<"(">> \o EscapedValue(v.l[i]) \o <<")">>
                 ELSE EscapedValue(v.l[i])],
              <<",", " ">>)
    [] OTHER -> <<"'">> \o Escaped(v.s) \o <<"'">>

(* No quote and no backslash of the text stands without a backslash        *)
(* before it                                                               *)
RECURSIVE NoBareQuote(_)
NoBareQuote(t) ==
  IF t = <<>> THEN TRUE
  ELSE IF Head(t) = "\\" THEN Len(t) >= 2 /\ NoBareQuote(SubSeq(t, 3, Len(t)))
  ELSE Head(t) \notin {"'", "\""} /\ NoBareQuote(Tail(t))

(* An empty raw fragment is an element of the array or of an array in it *)
RECURSIVE HasEmptyRaw(_)
HasEmptyRaw(v) ==
  v.k = "array" /\ \E i \in 1..Len(v.l) : v.l[i] = Raw(<<>>) \/ HasEmptyRaw(v.l[i])

(* C32: escape(val) returns NULL for null and undefined, true / false for  *)
(* a boolean, the decimal text of a number, the text of a raw fragment as  *)
(* it is, for an array the renderings of its elements joined by a comma    *)
(* with each nested array in parentheses, and any other string in single   *)
(* quotes with each NUL, backspace, tab, newline, carriage return, ctrl-Z, *)
(* single quote, double quote and backslash replaced by its backslash      *)
(* escape, so that no quote or backslash of the string stands unescaped    *)
(* between the quotes.                                                     *)
C32_Escape ==
  last.op = "escape" =>
    /\ last.out = EscapedValue(args.val)
    /\ args.val.k = "string" =>
         /\ Head(last.out) = "'" /\ last.out[Len(last.out)] = "'"
         /\ NoBareQuote(SubSeq(last.out, 2, Len(last.out) - 1))

(* The same for the values without an empty raw fragment in an array *)
C32_EscapeValues ==
  (last.op = "escape" /\ ~HasEmptyRaw(args.val)) =>
    /\ last.out = EscapedValue(args.val)
    /\ args.val.k = "string" =>
         /\ Head(last.out) = "'" /\ last.out[Len(last.out)] = "'"
         /\ NoBareQuote(SubSeq(last.out, 2, Len(last.out) - 1))

(* A call on a string with quotes and backslashes *)
C32_Quoted ==
  /\ last.op = "escape"
  /\ args.val = StrV(<<"\\", "'", " ", "OR", " ", "1", "=", "1", "\\">>)
  /\ last.out = <<"'", "\\", "\\", "\\", "'", " ", "OR", " ", "1", "=", "1", "\\", "\\", "'">>

(* A call on an array of nested arrays *)
C32_Nested ==
  /\ last.op = "escape"
  /\ Str(last.out) = "1, (2, (3)), x"

(* A call that put no comma between an empty raw fragment and the nested   *)
(* array after it                                                          *)
C32_SeparatorOmitted ==
  /\ last.op = "escape"
  /\ args.val = Arr(<<Raw(<<>>), Arr(<<Num(1), Num(2)>>)>>)
  /\ Str(last.out) = "(1, 2)"

(* The conditions without content that are not the empty string *)
Blank == {StrV(<<" ">>), Obj(<<>>)}

(* C33: on a SELECT DISTINCT builder where() and and() with a string of    *)
(* white space or an empty mapping succeed as on a SELECT builder, and     *)
(* build() renders what it rendered without the call, with no WHERE when   *)
(* no other condition was given.                                           *)
C33_DistinctVacuous ==
  \A h \in Held : \A c \in Blank :
    cur(h).type \in {"SELECT", "SELECT DISTINCT"} =>
      /\ where(cur(h), c, undefined).ok
      /\ and(cur(h), c, undefined).ok
      /\ build(where(cur(h), c, undefined).d).ok = build(cur(h)).ok
      /\ build(where(cur(h), c, undefined).d).out = build(cur(h)).out
      /\ build(and(cur(h), c, undefined).d).out = build(cur(h)).out

(* The same on a SELECT builder only *)
C33_SelectVacuous ==
  \A h \in Held : \A c \in Blank :
    cur(h).type = "SELECT" =>
      /\ where(cur(h), c, undefined).ok
      /\ and(cur(h), c, undefined).ok
      /\ build(where(cur(h), c, undefined).d).ok = build(cur(h)).ok
      /\ build(where(cur(h), c, undefined).d).out = build(cur(h)).out
      /\ build(and(cur(h), c, undefined).d).out = build(cur(h)).out

(* On a SELECT DISTINCT builder the two calls fail as on a modifying one *)
C33_DistinctRejects ==
  \A h \in Held : \A c \in Blank :
    cur(h).type = "SELECT DISTINCT" =>
      /\ ~where(cur(h), c, undefined).ok
      /\ where(cur(h), c, undefined).err = ErrEmptyCondition
      /\ ~and(cur(h), c, undefined).ok
      /\ and(cur(h), c, undefined).err = ErrEmptyCondition

(* where() failed on a SELECT DISTINCT builder with fields *)
C33_DistinctRejected ==
  /\ last.op = "where" /\ ~last.ok /\ last.err = ErrEmptyCondition
  /\ cur(last.h).type = "SELECT DISTINCT"
  /\ cur(last.h).fields # <<>>

(* C34: a call other than build() that throws leaves every builder as it   *)
(* was before the call.                                                    *)
C34_FailedCallNoEffect ==
  [][(~last'.ok /\ last'.op # "build") => store' = store]_vars

(* The calls that, with the arguments of Spec, check before they assign *)
AllOrNothing ==
  {"table", "from", "into", "as", "join", "leftJoin", "rightJoin", "on", "where",
   "and", "fields", "count", "set", "delete", "onDuplicateKeyUpdate", "sql",
   "orderBy", "groupBy", "having", "offset", "skip", "limit"}

(* The same for the calls that check everything before they assign *)
C34_FailedCheckNoEffect ==
  [][(~last'.ok /\ last'.op \in AllOrNothing) => store' = store]_vars

(* build() rendered an INSERT without payload after an insert() that threw *)
(* A where() that fails after it has appended the $raw fragment of its     *)
(* mapping                                                                 *)
C34_HalfAppliedWhere ==
  /\ last.op = "where" /\ ~last.ok
  /\ cur("b").conditions = << T("r") >>
  /\ args = Obj(<<Field("a", Op2("$eq", Num(1), "$bad", Num(2)))>>)

C34_HalfAppliedInsert ==
  /\ last.op = "build" /\ last.ok
  /\ cur(last.h).type = "INSERT"
  /\ cur(last.h).insert = <<>>
  /\ Str(last.out) = "INSERT INTO ^t^"

(* C35: in every reachable state the two alias maps of a builder are the   *)
(* inverse of each other: an alias names the table whose alias it is, and  *)
(* a table's alias names that table.                                       *)
C35_AliasMapsInverse ==
  \A h \in Held :
    LET d == cur(h)
    IN  /\ \A a \in DOMAIN d.mapAliasToTable :
             /\ String(d.mapAliasToTable[a]) \in DOMAIN d.mapTableToAlias
             /\ d.mapTableToAlias[String(d.mapAliasToTable[a])] = a
        /\ \A t \in DOMAIN d.mapTableToAlias :
             /\ d.mapTableToAlias[t] \in DOMAIN d.mapAliasToTable
             /\ String(d.mapAliasToTable[d.mapTableToAlias[t]]) = t

(* The alias recorded for a table is always an alias of that table *)
C35_TableAliasRegistered ==
  \A h \in Held :
    LET d == cur(h)
    IN  \A t \in DOMAIN d.mapTableToAlias :
          /\ d.mapTableToAlias[t] \in DOMAIN d.mapAliasToTable
          /\ String(d.mapAliasToTable[d.mapTableToAlias[t]]) = t

(* Two join entries of one table carry two aliases, and the table's alias  *)
(* is the second one only                                                  *)
C35_TwoAliasesOneTable ==
  /\ last.op = "as" /\ last.ok
  /\ Len(cur("b").joinTables) = 2
  /\ cur("b").joinTables[1].table = cur("b").joinTables[2].table
  /\ cur("b").joinTables[1].alias # <<>>
  /\ cur("b").joinTables[2].alias # <<>>
  /\ cur("b").joinTables[1].alias # cur("b").joinTables[2].alias
  /\ cur("b").joinTables[1].alias \in DOMAIN cur("b").mapAliasToTable
  /\ cur("b").mapTableToAlias[cur("b").joinTables[1].table]
       = cur("b").joinTables[2].alias

(* The places of a SELECT text, after its FROM, where AS introduces the    *)
(* alias of a table                                                        *)
AliasPlaces(t) ==
  {i \in 1..(Len(t) - 4) :
     /\ t[i] = "AS" /\ t[i + 1] = " " /\ t[i + 2] = BQ /\ t[i + 4] = BQ
     /\ \E f \in 1..(i - 1) : t[f] = "FROM"}

(* C36: in every SELECT text build() returns, the aliases AS introduces    *)
(* for the table and for the join entries are pairwise distinct.           *)
C36_AliasesDistinct ==
  (last.op = "build" /\ last.ok /\ cur(last.h).type \in {"SELECT", "SELECT DISTINCT"}) =>
    \A i, j \in AliasPlaces(last.out) :
      i # j => last.out[i + 3] # last.out[j + 3]

(* The same, for a builder whose table and join entries have pairwise      *)
(* distinct names                                                          *)
C36_AliasesDistinctTables ==
  (/\ last.op = "build" /\ last.ok
   /\ cur(last.h).type \in {"SELECT", "SELECT DISTINCT"}
   /\ LET d == cur(last.h)
          names == <<d.tableName.s>> \o [i \in 1..Len(d.joinTables) |-> d.joinTables[i].table]
      IN  \A i, j \in 1..Len(names) : i # j => names[i] # names[j]) =>
    \A i, j \in AliasPlaces(last.out) :
      i # j => last.out[i + 3] # last.out[j + 3]

(* A SELECT text with two different aliases, which takes six calls *)
C36_TwoAliases ==
  /\ last.op = "build" /\ last.ok
  /\ Str(last.out) = "SELECT ^B^.^z^, ^B^.* FROM ^t^ AS ^A^ JOIN ^u^ AS ^B^"

(* A SELECT text that gives one alias to two tables *)
C36_OneAliasTwice ==
  /\ last.op = "build" /\ last.ok
  /\ Str(last.out) = "SELECT ^A^.^z^, ^A^.* FROM ^t^ AS ^A^ JOIN ^t^ AS ^A^"

(* C37: the clone of a builder whose build() succeeds builds successfully  *)
(* and returns the text the builder returns.                               *)
C37_CloneBuildsSame ==
  \A h \in Held :
    LET r == clone(store, obj[h])
        b == build(cur(h))
        c == build(r.store[r.ref])
    IN  b.ok => (c.ok /\ c.out = b.out)

(* The values a JSON round trip returns as they were, or as a value that   *)
(* is rendered alike                                                        *)
JsonStable(v) == v.k \in {"undefined", "null", "number", "string", "boolean"}

(* The same, for a builder whose stored positional values are numbers,     *)
(* strings, booleans, null or undefined                                    *)
C37_CloneBuildsSameStable ==
  \A h \in Held :
    LET r == clone(store, obj[h])
        b == build(cur(h))
        c == build(r.store[r.ref])
    IN  (b.ok /\ \A i \in 1..Len(cur(h).sqlValues) : JsonStable(cur(h).sqlValues[i])) =>
          (c.ok /\ c.out = b.out)

(* The clone of a builder with an undefined positional value is built *)
C37_UndefinedKept ==
  /\ obj["c"] # 0
  /\ last.h = "c" /\ last.op = "build" /\ last.ok
  /\ cur("b").sqlValues = <<undefined>>
  /\ cur("c").sqlValues = <<null>>
  /\ Str(last.out) = "SELECT * FROM ^t^ WHERE a=NULL"
  /\ build(cur("b")).out = last.out

(* The clone of a builder with a nested builder fails to build *)
C37_NestedBuilderLost ==
  /\ obj["c"] # 0
  /\ last.h = "c" /\ last.op = "build" /\ ~last.ok
  /\ build(cur("b")).ok
  /\ Str(build(cur("b")).out) = "SELECT * FROM ^t^ WHERE a IN (SELECT 1)"

(* The clone of a builder with a date renders another text *)
C37_DateChanged ==
  /\ obj["c"] # 0
  /\ last.h = "c" /\ last.op = "build" /\ last.ok
  /\ Str(last.out) = "SELECT * FROM ^t^ WHERE a='2020-01-02T03:04:05.006Z'"
  /\ Str(build(cur("b")).out) = "SELECT * FROM ^t^ WHERE a='2020-01-02 03:04:05.006'"

(* C38: where() leaves the condition mapping the caller passed as it was.  *)
C38_ArgumentKept ==
  [][last'.op = "where" => args' = args]_vars

(* The same, for a mapping without a $raw key *)
C38_ArgumentKeptWithoutRaw ==
  [][(last'.op = "where" /\ ~hasKey(args, <<"$raw">>)) => args' = args]_vars

(* Two where() calls with one mapping that has a $raw key: the second      *)
(* appends no raw fragment                                                 *)
C38_RawAppendedOnce ==
  /\ last.op = "where" /\ last.ok
  /\ cur("b").conditions = << T("r"), <<BQ, "b", BQ, "=", "2">>, <<BQ, "b", BQ, "=", "2">> >>
  /\ args = Obj(<< <<T("b"), Num(2)>> >>)

(* Two where() calls of a DELETE with the mapping of a $raw key only: the  *)
(* second fails, the mapping being empty                                   *)
C38_SecondCallFails ==
  /\ last.op = "where" /\ ~last.ok /\ last.err = ErrEmptyCondition
  /\ cur("b").conditions = << T("r") >>
  /\ args = Obj(<<>>)

(* C39: on a builder whose type is not set, where() with a condition of    *)
(* white space or with an empty mapping followed by select() succeeds and  *)
(* builds the text that select() followed by that where() builds.          *)
C39_OrderIndependent ==
  \A h \in Held : \A c \in Blank : \A fs \in FieldArgs :
    LET d == cur(h)
        selectFirst == select(d, fs)
        whereFirst == where(d, c, undefined)
    IN  (d.type = "" /\ selectFirst.ok /\ where(selectFirst.d, c, undefined).ok) =>
          /\ whereFirst.ok
          /\ select(whereFirst.d, fs).ok
          /\ build(select(whereFirst.d, fs).d).out
               = build(where(selectFirst.d, c, undefined).d).out

(* where() with such a condition fails on every builder whose type is not  *)
(* SELECT, and on those only                                               *)
C39_VacuousOnlyOnSelect ==
  \A h \in Held : \A c \in Blank :
    where(cur(h), c, undefined).ok <=> cur(h).type = "SELECT"

(* A where() that failed with the empty-condition error on a builder       *)
(* whose type is not set                                                   *)
C39_RejectedBeforeSelect ==
  /\ last.op = "where" /\ ~last.ok /\ last.err = ErrEmptyCondition
  /\ cur(last.h).type = ""
  /\ cur(last.h).conditions = <<>>
  /\ \A c \in Blank : where(select(cur(last.h), <<>>).d, c, undefined).ok

(* The and() / or() call that returned last, with a mapping as condition *)
MappingCalled ==
  /\ last'.op \in {"and", "or"} /\ last'.ok
  /\ Len(args') = Len(args) + 1
  /\ args'[Len(args')][2].k = "object"

(* C40: and() / or() of an Expression with a mapping appends the           *)
(* connector and the predicates of the mapping with ' AND ' between them.  *)
C40_PredicatesJoinedByAnd ==
  [][MappingCalled =>
       cur("b").data' = cur("b").data
                        \o <<" ", args'[Len(args')][1], " ">>
                        \o Join(sqlConditionStrings(args'[Len(args')][2]).v,
                                <<" ", "AND", " ">>)]_vars

(* The same, for a mapping of one predicate at most *)
C40_OnePredicate ==
  [][(MappingCalled /\ Len(sqlConditionStrings(args'[Len(args')][2]).v) <= 1) =>
       cur("b").data' = cur("b").data
                        \o <<" ", args'[Len(args')][1], " ">>
                        \o Join(sqlConditionStrings(args'[Len(args')][2]).v,
                                <<" ", "AND", " ">>)]_vars

(* build() returned the predicates of a mapping of two fields with a comma *)
(* between them                                                            *)
C40_CommaJoined ==
  /\ last.op = "build" /\ last.ok
  /\ Len(args) = 1 /\ args[1][2] = Row2(1, 2)
  /\ Str(last.out) = "(^a^=1,^b^=2)"

(* build() returned the predicates of two operators of one field with a    *)
(* comma between them                                                      *)
C40_OperatorsCommaJoined ==
  /\ last.op = "build" /\ last.ok
  /\ Len(args) = 1
  /\ Str(last.out) = "(^a^>1,^a^<5)"

====
